---- MODULE Spec2Model ----
(***************************************************************************)
(* State-machine model of the auth server (AuthServer, AuthDB,             *)
(* TokenManager, TokenRotationRegistry, RateLimiter, AccessControl).       *)
(*                                                                         *)
(* Time is counted in seconds.  Tokens are random 32-byte strings in the   *)
(* code; here every minted token is the next unused natural number, so     *)
(* that two minted tokens never collide.  0 stands for "no token"          *)
(* (undefined / null) and "null" for an absent user or code.               *)
(***************************************************************************)
EXTENDS Integers, Sequences, FiniteSets, TLC

\* ------------------------------------------------------------------------
\* Program constants (seconds)
\* ------------------------------------------------------------------------
ACCESS_TOKEN_LIFETIME == 3600
REFRESH_TOKEN_LIFETIME == 2592000
maxAge == REFRESH_TOKEN_LIFETIME
\* rateLimit option of the modelled deployment: 2 attempts per 1 s window
maxAttempts == 2
windowMs == 1

\* ------------------------------------------------------------------------
\* Bounds of the model
\* ------------------------------------------------------------------------
MaxPairs == 1
MaxTicks == 2
MaxRotationPairs == 2
MaxRotationTicks == 1
MaxRegTokens == 3
MaxTasks == 2
MaxRules == 2
MaxCalls == 4
MaxElapse == 3
MaxPorts == 3
MaxMiddlewares == 2
MaxHits == 4

Null == "null"
NoToken == 0

\* start() not called
NoStart ==
    [ports |-> << >>, prev |-> 0, max |-> 0, port |-> 0, pc |-> "idle",
     code |-> "", error |-> "", attempts |-> 0]

\* no get-user request served yet
NoShown ==
    [asked |-> FALSE, token |-> NoToken, me |-> Null, username |-> Null,
     status |-> 0, body |-> {}]

Names == {"root", "alice"}
BadNames == {"al", "a.b"}
Passwords == {"root", "pw"}
Codes == {"111111"}
IPs == {"10.0.0.1"}
TickSteps == {ACCESS_TOKEN_LIFETIME, REFRESH_TOKEN_LIFETIME}

VARIABLES
    now,           \* Date.now()
    ticks,         \* clock advances still to come (bound of the model)
    config,        \* ServerConfig.clearTokensOnPasswordReset
    info,          \* users/../<name>/info.json, by user name
    tokensJson,    \* users/../<name>/tokens.json, by user name
    tokens,        \* AuthDB.tokens
    registry,      \* TokenRotationRegistry.#registry
    registryFile,  \* the .token-rotation-registry document (<<>> while absent)
    limiter,       \* RateLimiter.registry
    privateDocs,   \* documents under private/
    nextTok,       \* next unused token
    budget,        \* token pairs that may still be minted (bound of the model)
    resp,          \* the request and response in flight to the client
    issued,        \* history: every token ever minted or registered, with its
                   \* subject, time and the previous token recorded for it
    replaced,      \* history: tokens exchanged by a 200 refresh with replace=true
    deleted,       \* history: tokens issued to a user before a 200 delete-account
    signedOut,     \* history: tokens issued to a user before a 200 signout
    cleared,       \* history: tokens issued to a user before a clearing reset
    invalidated,   \* history: tokens of a user issued before a chain invalidation
    inflight,      \* the token-issuing requests suspended at a disk operation,
                   \* by request task (used where requests interleave)
    checked,       \* the access files of the data directory, and the last
                   \* AccessControl.check made on them with its result
    calls,         \* history: the tryAttempt calls made on a RateLimiter used on
                   \* its own, with their key, time and outcome
    portCall,      \* the ports of a ServerConfig used on its own, and the last
                   \* getPort(prev) made on it with its result
    pipeline,      \* one runMiddlewares call: the middlewares, the closure idx, the
                   \* pending calls, res.headersSent and the calls made so far
    brute,         \* the hits map of a bruteForce middleware used on its own, and
                   \* history: the requests it has handled, with key, time and outcome
    shown,         \* the last get-user request served on its own: bearer, requester,
                   \* subject, status and the keys of the JSON body
    starting       \* AuthServer.start(): the port list, prev, max, this.port, the position in
                   \* the loop, the last listen failure, the error thrown and the attempts made

vars == <<now, ticks, config, info, tokensJson, tokens, registry, registryFile,
          limiter, privateDocs, nextTok, budget, resp, issued, replaced, deleted,
          signedOut, cleared, invalidated,
          inflight, checked,
          calls,
          portCall,
          pipeline,
          brute,
          shown,
          starting>>

\* ------------------------------------------------------------------------
\* Maps (JS Map / JSON object) as functions with a growing domain
\* ------------------------------------------------------------------------
EmptyMap == << >>
Put(f, k, v) == [x \in (DOMAIN f) \cup {k} |-> IF x = k THEN v ELSE f[x]]
Remove(f, K) == [x \in (DOMAIN f) \ K |-> f[x]]

\* crypto sha256 digest, base64url: an injective function of the password
hashPassword(password) == <<"sha256", password>>

\* ------------------------------------------------------------------------
\* TokenManager
\* ------------------------------------------------------------------------
isRefreshValid(time) == now < time + REFRESH_TOKEN_LIFETIME

isAccessValid(time) == now < time + ACCESS_TOKEN_LIFETIME

createTokenPair(s) ==
    [accessToken |-> s.nextTok,
     refreshToken |-> s.nextTok + 1,
     accessExpiry |-> now + ACCESS_TOKEN_LIFETIME,
     refreshExpiry |-> now + REFRESH_TOKEN_LIFETIME]

\* the store after the two tokens of a pair have been drawn
Drawn(s) == [s EXCEPT !.nextTok = s.nextTok + 2]

\* ------------------------------------------------------------------------
\* The stores a handler works on, as one record
\*   info, tokensJson, tokens, registry, registryFile, privateDocs, nextTok
\* ------------------------------------------------------------------------
Cur ==
    [info |-> info, tokensJson |-> tokensJson, tokens |-> tokens,
     registry |-> registry, registryFile |-> registryFile,
     privateDocs |-> privateDocs, nextTok |-> nextTok]

\* ------------------------------------------------------------------------
\* AuthDB
\* ------------------------------------------------------------------------
\* loadDocument(tokensPath, {})
loadTokens(s, username) ==
    IF username \in DOMAIN s.tokensJson THEN s.tokensJson[username] ELSE EmptyMap

\* getUser: the name of the user whose info.json exists, else null
getUser(s, username) ==
    IF username \in DOMAIN s.info THEN username ELSE Null

deleteToken(s, token) ==
    IF token \notin DOMAIN s.tokens THEN s
    ELSE LET username == s.tokens[token].username
             file == loadTokens(s, username)
         IN  [s EXCEPT !.tokens = Remove(@, {token}),
                       !.tokensJson = IF token \in DOMAIN file
                                      THEN Put(@, username, Remove(file, {token}))
                                      ELSE @]

\* the expiry test auth applies to a token record
tokenLive(data) ==
    IF data.isRefresh THEN isRefreshValid(data.time) ELSE isAccessValid(data.time)

\* auth(token): the user it returns ...
authUser(s, token) ==
    IF token = NoToken \/ token \notin DOMAIN s.tokens THEN Null
    ELSE IF ~tokenLive(s.tokens[token]) THEN Null
    ELSE getUser(s, s.tokens[token].username)

\* ... and the stores it leaves (an expired token is deleted)
authStore(s, token) ==
    IF token = NoToken \/ token \notin DOMAIN s.tokens THEN s
    ELSE IF ~tokenLive(s.tokens[token]) THEN deleteToken(s, token)
    ELSE s

\* updateTokens after its loadDocument has returned file: both tokens are
\* added to it and the document is saved
updateTokensSave(s, username, tokenPair, file) ==
    LET file1 == Put(file, tokenPair.accessToken,
                     [time |-> tokenPair.accessExpiry, isRefresh |-> FALSE])
        file2 == Put(file1, tokenPair.refreshToken,
                     [time |-> tokenPair.refreshExpiry, isRefresh |-> TRUE])
    IN  [s EXCEPT !.tokensJson = Put(@, username, file2)]

\* updateTokens after its saveDocument has returned: the in-memory map is set
updateTokensSet(s, username, tokenPair) ==
    LET mem1 == Put(s.tokens, tokenPair.accessToken,
                    [time |-> tokenPair.accessExpiry, username |-> username,
                     isRefresh |-> FALSE])
        mem2 == Put(mem1, tokenPair.refreshToken,
                    [time |-> tokenPair.refreshExpiry, username |-> username,
                     isRefresh |-> TRUE])
    IN  [s EXCEPT !.tokens = mem2]

\* an updateTokens that writes tokens.json and forgets the in-memory map
updateTokens_FileOnly(s, username, tokenPair) ==
    LET file == loadTokens(s, username)
        file1 == Put(file, tokenPair.accessToken,
                     [time |-> tokenPair.accessExpiry, isRefresh |-> FALSE])
        file2 == Put(file1, tokenPair.refreshToken,
                     [time |-> tokenPair.refreshExpiry, isRefresh |-> TRUE])
    IN  [s EXCEPT !.tokensJson = Put(@, username, file2)]

updateTokens(s, username, tokenPair) ==
    updateTokensSet(updateTokensSave(s, username, tokenPair, loadTokens(s, username)),
                    username, tokenPair)

\* a clearTokens that drops tokens.json and keeps the in-memory map
clearTokens_FileOnly(s, username) ==
    [s EXCEPT !.tokensJson = Remove(@, {username})]

clearTokens(s, username) ==
    [s EXCEPT !.tokensJson = Remove(@, {username}),
              !.tokens = Remove(@, {t \in DOMAIN s.tokens :
                                        s.tokens[t].username = username})]

\* the characters of the names the requests use (user.name as a string)
Spelling(name) ==
    CASE name = "root" -> <<"r", "o", "o", "t">>
      [] name = "alice" -> <<"a", "l", "i", "c", "e">>
      [] name = "al" -> <<"a", "l">>
      [] name = "a.b" -> <<"a", ".", "b">>

NameChars ==
    {"a", "b", "c", "d", "e", "f", "g", "h", "i", "j", "k", "l", "m", "n", "o", "p",
     "q", "r", "s", "t", "u", "v", "w", "x", "y", "z",
     "A", "B", "C", "D", "E", "F", "G", "H", "I", "J", "K", "L", "M", "N", "O", "P",
     "Q", "R", "S", "T", "U", "V", "W", "X", "Y", "Z",
     "0", "1", "2", "3", "4", "5", "6", "7", "8", "9", "_", "-"}

\* /^[a-z0-9_-]{3,32}$/i.test(user.name): saveUser throws when it is false
validUsername(name) ==
    /\ Len(Spelling(name)) >= 3
    /\ Len(Spelling(name)) <= 32
    /\ \A i \in 1..Len(Spelling(name)) : Spelling(name)[i] \in NameChars

saveUser(s, username, user) ==
    [s EXCEPT !.info = Put(@, username, user)]

deleteUser(s, username) ==
    [s EXCEPT !.info = Remove(@, {username}),
              !.tokensJson = Remove(@, {username})]

\* ------------------------------------------------------------------------
\* TokenRotationRegistry (R is the #registry map)
\* ------------------------------------------------------------------------
registerToken(R, token, username, previousToken) ==
    Put(R, token, [username |-> username, createdAt |-> now,
                   previousToken |-> previousToken])

entryExpired(R, token) == now - R[token].createdAt > maxAge

\* a validateToken that does not compare the username
validateToken_AnySubject(R, token, username) ==
    /\ token \in DOMAIN R
    /\ ~entryExpired(R, token)

\* validateToken: its result ...
validateToken(R, token, username) ==
    /\ token \in DOMAIN R
    /\ ~entryExpired(R, token)
    /\ R[token].username = username

\* ... and the registry it leaves (an expired entry is removed)
validateTokenReg(R, token) ==
    IF token \in DOMAIN R /\ entryExpired(R, token) THEN Remove(R, {token}) ELSE R

\* a registry whose invalidation forgets to delete
invalidateToken_Keeps(R, token) == R

RECURSIVE invalidateWalk(_, _)
invalidateWalk(R, current) ==
    IF current = NoToken \/ current \notin DOMAIN R THEN R
    ELSE invalidateWalk(Remove(R, {current}), R[current].previousToken)

\* the iterations the while loop of invalidateToken makes from current
RECURSIVE invalidateSteps(_, _)
invalidateSteps(R, current) ==
    IF current = NoToken \/ current \notin DOMAIN R THEN 0
    ELSE 1 + invalidateSteps(Remove(R, {current}), R[current].previousToken)

\* an invalidation that empties the registry
invalidateToken_ClearsAll(R, token) ==
    IF token \notin DOMAIN R THEN R ELSE EmptyMap

invalidateToken(R, token) ==
    IF token \notin DOMAIN R THEN R ELSE invalidateWalk(R, token)

clearUserTokens(R, username) ==
    Remove(R, {t \in DOMAIN R : R[t].username = username})

cleanup(R) ==
    Remove(R, {t \in DOMAIN R : now - R[t].createdAt > maxAge})

\* save(): the whole map is written to the snapshot document
save(s) == [s EXCEPT !.registryFile = s.registry]

\* ------------------------------------------------------------------------
\* ServerConfig.getPort.  Array.prototype.sort without a comparator orders
\* its elements by their string conversions, so a port is compared through
\* its decimal digits.
\* ------------------------------------------------------------------------
RECURSIVE Digits(_)
Digits(n) == IF n < 10 THEN <<n>> ELSE Append(Digits(n \div 10), n % 10)

\* String(a) <= String(b) in code-unit order
RECURSIVE StrLeq(_, _)
StrLeq(a, b) ==
    IF a = << >> THEN TRUE
    ELSE IF b = << >> THEN FALSE
    ELSE IF Head(a) # Head(b) THEN Head(a) < Head(b)
    ELSE StrLeq(Tail(a), Tail(b))

RECURSIVE InsertPort(_, _)
InsertPort(no, sorted) ==
    IF sorted = << >> THEN <<no>>
    ELSE IF StrLeq(Digits(no), Digits(Head(sorted))) THEN <<no>> \o sorted
    ELSE <<Head(sorted)>> \o InsertPort(no, Tail(sorted))

\* ports.slice().sort()
RECURSIVE sort(_)
sort(ports) ==
    IF ports = << >> THEN << >> ELSE InsertPort(Head(ports), sort(Tail(ports)))

Port(no) == [port |-> no, error |-> ""]
Throws(message) == [port |-> 0, error |-> message]

\* for (const no of ports) if (no > prev) return no
RECURSIVE firstAbove(_, _)
firstAbove(ports, prev) ==
    IF ports = << >> THEN Throws("Out of list")
    ELSE IF Head(ports) > prev THEN Port(Head(ports))
    ELSE firstAbove(Tail(ports), prev)

getPort(thisPorts, prev) ==
    LET ports == sort(thisPorts)
    IN  IF Len(thisPorts) > 2 THEN firstAbove(ports, prev)
        ELSE IF Len(thisPorts) = 2
        THEN LET current == IF 0 = prev THEN ports[1]
                            ELSE (IF prev > ports[1] THEN prev ELSE ports[1]) + 1
             IN  IF current > ports[2] THEN Throws("Out of range") ELSE Port(current)
        ELSE IF Len(thisPorts) = 1 THEN Port(thisPorts[1])
        ELSE Port(0)

\* no getPort call made yet
NoPortCall == [ports |-> << >>, asked |-> FALSE, prev |-> 0, result |-> Port(0)]

\* ------------------------------------------------------------------------
\* runMiddlewares.  A middleware is the sequence of what its body does: call
\* next() ("next") or commit a response ("respond"); every call is awaited.
\* ------------------------------------------------------------------------
\* no runMiddlewares call made
NoRun ==
    [middlewares |-> << >>, finalResponds |-> FALSE, idx |-> 0, stack |-> << >>,
     headersSent |-> FALSE, log |-> << >>, phase |-> "new"]

\* a next that does not look at res.headersSent
next_IgnoresHeaders(p, caller) ==
    LET p1 == [p EXCEPT !.log = Append(@, [kind |-> "next", who |-> caller])]
    IN  IF p.idx < Len(p.middlewares)
        THEN [p1 EXCEPT !.idx = @ + 1,
                        !.stack = Append(@, [mw |-> p.idx + 1, pc |-> 1]),
                        !.log = Append(@, [kind |-> "invoke", who |-> p.idx + 1])]
        ELSE [p1 EXCEPT !.log = Append(@, [kind |-> "final", who |-> 0]),
                        !.headersSent = @ \/ p.finalResponds]

\* a next that goes to the final handler whatever middlewares are left
next_StraightToFinal(p, caller) ==
    LET p1 == [p EXCEPT !.log = Append(@, [kind |-> "next", who |-> caller])]
    IN  IF p.headersSent
        THEN [p1 EXCEPT !.stack = << >>, !.phase = "suppressed"]
        ELSE [p1 EXCEPT !.log = Append(@, [kind |-> "final", who |-> 0]),
                        !.headersSent = @ \/ p.finalResponds]

\* the closure next() called by caller (0 is runMiddlewares itself): it
\* throws 'Middleware already handled response' when headers are sent, which
\* unwinds every pending call up to the catch of runMiddlewares; otherwise it
\* invokes middlewares[idx++], or the final handler when none is left
next(p, caller) ==
    LET p1 == [p EXCEPT !.log = Append(@, [kind |-> "next", who |-> caller])]
    IN  IF p.headersSent
        THEN [p1 EXCEPT !.stack = << >>, !.phase = "suppressed"]
        ELSE IF p.idx < Len(p.middlewares)
        THEN [p1 EXCEPT !.idx = @ + 1,
                        !.stack = Append(@, [mw |-> p.idx + 1, pc |-> 1]),
                        !.log = Append(@, [kind |-> "invoke", who |-> p.idx + 1])]
        ELSE [p1 EXCEPT !.log = Append(@, [kind |-> "final", who |-> 0]),
                        !.headersSent = @ \/ p.finalResponds]

\* ------------------------------------------------------------------------
\* bruteForce middleware (H is its hits map, keyed by ip and pathname)
\* ------------------------------------------------------------------------
\* the options of the modelled middleware: 2 requests per 1 s window
options == [windowMs |-> 1, max |-> 2]

NoHits == [hits |-> EmptyMap, log |-> << >>]

cleanUp(H) ==
    Remove(H, {key \in DOMAIN H : now - H[key].timestamp > options.windowMs})

\* a middleware that lets one more request through
bruteForce_OneMore(H, key) ==
    LET hits == cleanUp(H)
    IN  IF key \notin DOMAIN hits
        THEN [hits |-> Put(hits, key, [count |-> 1, timestamp |-> now]),
              passed |-> TRUE, status |-> 0]
        ELSE LET entry == [hits[key] EXCEPT !.count = @ + 1]
             IN  IF entry.count > options.max + 1
                 THEN [hits |-> Put(hits, key, entry), passed |-> FALSE, status |-> 429]
                 ELSE [hits |-> Put(hits, key, entry), passed |-> TRUE, status |-> 0]

\* the middleware on a request with the given key: the hits map it leaves,
\* whether it calls next(), and the status the default handler writes
bruteForce(H, key) ==
    LET hits == cleanUp(H)
    IN  IF key \notin DOMAIN hits
        THEN [hits |-> Put(hits, key, [count |-> 1, timestamp |-> now]),
              passed |-> TRUE, status |-> 0]
        ELSE LET entry == [hits[key] EXCEPT !.count = @ + 1]
             IN  IF entry.count > options.max
                 THEN [hits |-> Put(hits, key, entry), passed |-> FALSE, status |-> 429]
                 ELSE [hits |-> Put(hits, key, entry), passed |-> TRUE, status |-> 0]

\* ------------------------------------------------------------------------
\* RateLimiter (L is the registry map); tryAttempt throws when refused
\* ------------------------------------------------------------------------
\* a limiter that lets a call through when the count has reached the limit
tryAttemptOk_OneMore(L, ip) ==
    IF ip \in DOMAIN L
    THEN IF now - L[ip].timestamp > windowMs THEN TRUE
         ELSE ~(L[ip].count > maxAttempts)
    ELSE TRUE

\* a limiter whose refusal restarts the window
tryAttemptReg_Extends(L, ip) ==
    IF ip \in DOMAIN L
    THEN IF now - L[ip].timestamp > windowMs
         THEN Put(L, ip, [timestamp |-> now, count |-> 1])
         ELSE IF L[ip].count >= maxAttempts
         THEN Put(L, ip, [timestamp |-> now, count |-> L[ip].count])
         ELSE Put(L, ip, [timestamp |-> L[ip].timestamp, count |-> L[ip].count + 1])
    ELSE Put(L, ip, [timestamp |-> now, count |-> 1])

tryAttemptOk(L, ip) ==
    IF ip \in DOMAIN L
    THEN IF now - L[ip].timestamp > windowMs THEN TRUE
         ELSE ~(L[ip].count >= maxAttempts)
    ELSE TRUE

tryAttemptReg(L, ip) ==
    IF ip \in DOMAIN L
    THEN IF now - L[ip].timestamp > windowMs
         THEN Put(L, ip, [timestamp |-> now, count |-> 1])
         ELSE IF L[ip].count >= maxAttempts THEN L
         ELSE Put(L, ip, [timestamp |-> L[ip].timestamp, count |-> L[ip].count + 1])
    ELSE Put(L, ip, [timestamp |-> now, count |-> 1])

\* ------------------------------------------------------------------------
\* AccessControl.  Strings that are matched by prefix are sequences of
\* characters; an access string is the set of its characters.
\* ------------------------------------------------------------------------
ANY == "*"
READ == "r"
WRITE == "w"
DELETE == "d"

\* the path requested under /private/ :  "d/a"
PathDA == <<"d", "/", "a">>
PrivatePaths == {PathDA}
Bodies == {"doc"}
Methods == {"GET", "HEAD", "POST", "DELETE"}

\* .access of the modelled deployment:   * rwd p/     staff rwd d/
GlobalAccessFile ==
    << [subject |-> ANY, access |-> {"r", "w", "d"}, target |-> <<"p", "/">>],
       [subject |-> "staff", access |-> {"r", "w", "d"}, target |-> <<"d", "/">>] >>

\* .group of the modelled deployment:    staff alice
GroupFile == << <<"staff", "alice">> >>

\* users/ro/ot/root/access.txt:          root r d/a
UserAccessFile(username) ==
    IF username = "root"
    THEN << [subject |-> "root", access |-> {"r"}, target |-> <<"d", "/", "a">>] >>
    ELSE << >>

startsWith(str, prefix) ==
    /\ Len(prefix) <= Len(str)
    /\ SubSeq(str, 1, Len(prefix)) = prefix

withSlash(str) ==
    IF startsWith(str, <<"/">>) THEN str ELSE <<"/">> \o str

\* the groups of .group (lines "group user user ...") that list username
_getUserGroups(db, username) ==
    {db.group[i][1] : i \in {j \in 1..Len(db.group) :
        \E k \in 2..Len(db.group[j]) : db.group[j][k] = username}}

\* the rules of users/../<username>/access.txt, whatever their subject
_getUserAccess(db, username) == db.userAccess[username]

\* the rules of .access
_getGlobalAccess(db) == db.access

\* a _matchAccess that does not look at the level
_matchAccess_AnyLevel(rules, path, level) ==
    \E i \in 1..Len(rules) :
        /\ rules[i].target # << >>
        /\ startsWith(path, withSlash(rules[i].target))

_matchAccess(rules, path, level) ==
    \E i \in 1..Len(rules) :
        /\ rules[i].target # << >>
        /\ level \in rules[i].access
        /\ startsWith(path, withSlash(rules[i].target))

\* globalAccess.filter(rule => userGroups.includes(rule.subject))
groupRules(globalAccess, userGroups) ==
    SelectSeq(globalAccess, LAMBDA rule : rule.subject \in userGroups)

\* globalAccess.filter(rule => rule.subject === AccessControl.ANY)
globalRules(globalAccess) ==
    SelectSeq(globalAccess, LAMBDA rule : rule.subject = ANY)

\* AccessControl.check on the access files db
checkOn(db, username, path, level) ==
    LET npath == withSlash(path)
        globalAccess == _getGlobalAccess(db)
        userGroups == _getUserGroups(db, username)
    IN  \/ _matchAccess(_getUserAccess(db, username), npath, level)
        \/ _matchAccess(groupRules(globalAccess, userGroups), npath, level)
        \/ _matchAccess(globalRules(globalAccess), npath, level)

\* the access files of the modelled deployment
Deployment ==
    [access |-> GlobalAccessFile, group |-> GroupFile,
     userAccess |-> [username \in Names |-> UserAccessFile(username)]]

check(username, path, level) == checkOn(Deployment, username, path, level)

\* no check made yet on the deployment's files
NoCheck ==
    [db |-> Deployment, asked |-> FALSE, username |-> Null, path |-> << >>,
     level |-> Null, result |-> FALSE]

\* a handler that asks for read access whatever the method
levelOf_Read(method) == READ

\* the access level handlePrivateAccess derives from the method
levelOf(method) ==
    IF method = "POST" THEN WRITE
    ELSE IF method = "DELETE" THEN DELETE
    ELSE READ

\* ------------------------------------------------------------------------
\* Handlers.  Each takes the stores s left by the middlewares and returns
\* the stores it leaves together with the response it sends.
\* ------------------------------------------------------------------------
Undefined == "undefined"
Emails == {"a@x"}
WrongCode == "000000"
CodeInputs == Codes \cup {WrongCode, Null, Undefined}
Missing(v) == v \in {Null, Undefined}

Reply(s, status, error) ==
    [s |-> s, status |-> status, error |-> error,
     accessToken |-> NoToken, refreshToken |-> NoToken]

ReplyTokens(s, status, tokenPair) ==
    [s |-> s, status |-> status, error |-> "",
     accessToken |-> tokenPair.accessToken, refreshToken |-> tokenPair.refreshToken]

\* the handler's promise rejects with err: authMiddleware calls next() without
\* awaiting it, so no catch sees the rejection and no response is written
Rejects(s, err) == Reply(s, 0, err)

\* a signup that does not look for an existing user
handleSignup_Overwrites(s, username, password, email, verificationCode) ==
    IF Missing(username) \/ Missing(password) \/ Missing(email)
    THEN Reply(s, 400, "Missing required fields")
    ELSE IF ~validUsername(username)
    THEN Rejects(s, "Invalid username format")
    ELSE Reply(saveUser(s, username,
                  [email |-> email, passwordHash |-> hashPassword(password),
                   verified |-> FALSE, verificationCode |-> verificationCode,
                   resetCode |-> Null, roles |-> {"user"}]),
               200, "")

\* verificationCode is the 6-digit code drawn by Math.random
handleSignup(s, username, password, email, verificationCode) ==
    IF Missing(username) \/ Missing(password) \/ Missing(email)
    THEN Reply(s, 400, "Missing required fields")
    ELSE IF getUser(s, username) # Null
    THEN Reply(s, 409, "User already exists")
    ELSE IF ~validUsername(username)
    THEN Rejects(s, "Invalid username format")
    ELSE Reply(saveUser(s, username,
                  [email |-> email, passwordHash |-> hashPassword(password),
                   verified |-> FALSE, verificationCode |-> verificationCode,
                   resetCode |-> Null, roles |-> {"user"}]),
               200, "")

\* a confirmation that accepts any code
handleConfirmSignup_AnyCode(s, username, code) ==
    IF getUser(s, username) = Null THEN Reply(s, 404, "User not found")
    ELSE IF s.info[username].verified THEN Reply(s, 400, "User already verified")
    ELSE LET s1 == saveUser(s, username,
                      [s.info[username] EXCEPT !.verified = TRUE,
                                               !.verificationCode = Null])
             tokenPair == createTokenPair(s1)
             s2 == updateTokens(Drawn(s1), username, tokenPair)
             s3 == [s2 EXCEPT !.registry =
                       registerToken(@, tokenPair.refreshToken, username, NoToken)]
         IN  ReplyTokens(s3, 200, tokenPair)

handleConfirmSignup(s, username, code) ==
    IF getUser(s, username) = Null THEN Reply(s, 404, "User not found")
    ELSE IF s.info[username].verified THEN Reply(s, 400, "User already verified")
    ELSE IF s.info[username].verificationCode # code
    THEN Reply(s, 401, "Invalid verification code")
    ELSE LET s1 == saveUser(s, username,
                      [s.info[username] EXCEPT !.verified = TRUE,
                                               !.verificationCode = Null])
             tokenPair == createTokenPair(s1)
             s2 == updateTokens(Drawn(s1), username, tokenPair)
             s3 == [s2 EXCEPT !.registry =
                       registerToken(@, tokenPair.refreshToken, username, NoToken)]
         IN  ReplyTokens(s3, 200, tokenPair)

handleDeleteAccount(s, username) ==
    IF getUser(s, username) = Null THEN Reply(s, 404, "User not found")
    ELSE LET s1 == deleteUser(s, username)
             s2 == [s1 EXCEPT !.registry = clearUserTokens(@, username)]
         IN  Reply(save(s2), 200, "")

\* a signin that does not look at the verified flag
handleSignin_Unverified(s, username, password) ==
    IF getUser(s, username) = Null THEN Reply(s, 404, "Invalid password or username")
    ELSE IF s.info[username].passwordHash # hashPassword(password)
    THEN Reply(s, 401, "Invalid password or username")
    ELSE LET tokenPair == createTokenPair(s)
             s1 == updateTokens(Drawn(s), username, tokenPair)
             s2 == [s1 EXCEPT !.registry =
                       registerToken(@, tokenPair.refreshToken, username, NoToken)]
         IN  ReplyTokens(save(s2), 200, tokenPair)

handleSignin(s, username, password) ==
    IF getUser(s, username) = Null THEN Reply(s, 404, "Invalid password or username")
    ELSE IF ~s.info[username].verified THEN Reply(s, 403, "Account not verified")
    ELSE IF s.info[username].passwordHash # hashPassword(password)
    THEN Reply(s, 401, "Invalid password or username")
    ELSE LET tokenPair == createTokenPair(s)
             s1 == updateTokens(Drawn(s), username, tokenPair)
             s2 == [s1 EXCEPT !.registry =
                       registerToken(@, tokenPair.refreshToken, username, NoToken)]
         IN  ReplyTokens(save(s2), 200, tokenPair)

handleRefreshToken(s, token, replace) ==
    LET user == authUser(s, token)
        s0 == authStore(s, token)
    IN  IF user = Null THEN Reply(s0, 401, "Invalid refresh token")
        ELSE IF ~isRefreshValid(s0.tokens[token].time)
        THEN Reply(s0, 401, "Refresh token expired")
        ELSE IF ~validateToken(s0.registry, token, user)
        THEN Reply([s0 EXCEPT !.registry = validateTokenReg(@, token)],
                   401, "Invalid refresh token")
        ELSE LET newTokenPair == createTokenPair(s0)
                 s1 == updateTokens(Drawn(s0), user, newTokenPair)
                 s2 == [s1 EXCEPT !.registry =
                           registerToken(@, newTokenPair.refreshToken, user, token)]
                 s3 == IF replace
                       THEN [s2 EXCEPT !.registry = invalidateToken(@, token)]
                       ELSE s2
             IN  ReplyTokens(save(s3), 200, newTokenPair)

\* resetCode is the 6-digit code drawn by Math.random
handleForgotPassword(s, username, resetCode) ==
    IF getUser(s, username) = Null THEN Reply(s, 404, "User not found")
    ELSE Reply(saveUser(s, username, [s.info[username] EXCEPT !.resetCode = resetCode]),
               200, "")

\* a reset that never clears the user's tokens
handleResetPassword_NoClear(s, username, code, password, clearTokensOnPasswordReset) ==
    IF getUser(s, username) = Null THEN Reply(s, 404, "Invalid reset code")
    ELSE IF s.info[username].resetCode # code THEN Reply(s, 401, "Invalid reset code")
    ELSE LET s1 == saveUser(s, username,
                      [s.info[username] EXCEPT !.passwordHash = hashPassword(password),
                                               !.resetCode = Null])
             tokenPair == createTokenPair(s1)
             s3 == updateTokens(Drawn(s1), username, tokenPair)
             s4 == [s3 EXCEPT !.registry =
                       registerToken(@, tokenPair.refreshToken, username, NoToken)]
         IN  ReplyTokens(save(s4), 200, tokenPair)

handleResetPassword(s, username, code, password, clearTokensOnPasswordReset) ==
    IF getUser(s, username) = Null THEN Reply(s, 404, "Invalid reset code")
    ELSE IF s.info[username].resetCode # code THEN Reply(s, 401, "Invalid reset code")
    ELSE LET s1 == saveUser(s, username,
                      [s.info[username] EXCEPT !.passwordHash = hashPassword(password),
                                               !.resetCode = Null])
             s2 == IF clearTokensOnPasswordReset
                   THEN [clearTokens(s1, username) EXCEPT
                            !.registry = clearUserTokens(@, username)]
                   ELSE s1
             tokenPair == createTokenPair(s2)
             s3 == updateTokens(Drawn(s2), username, tokenPair)
             s4 == [s3 EXCEPT !.registry =
                       registerToken(@, tokenPair.refreshToken, username, NoToken)]
         IN  ReplyTokens(save(s4), 200, tokenPair)

\* bearer is the token of the Authorization header (getToken)
handleSignout(s, bearer) ==
    LET me == authUser(s, bearer)
        s0 == authStore(s, bearer)
    IN  IF me = Null THEN Reply(s0, 401, "Unauthorized")
        ELSE LET s1 == clearTokens(s0, me)
                 s2 == [s1 EXCEPT !.registry = clearUserTokens(@, me)]
             IN  Reply(save(s2), 200, "")

\* user is req.user as set by authMiddleware
handlePrivateAccess(s, user, method, path, body) ==
    IF user = Null THEN Reply(s, 401, "Unauthorized")
    ELSE IF ~check(user, path, levelOf(method)) THEN Reply(s, 403, "Forbidden")
    ELSE IF method \in {"GET", "HEAD"}
    THEN IF path \in DOMAIN s.privateDocs THEN Reply(s, 200, "")
         ELSE Reply(s, 404, "Not found")
    ELSE IF method = "POST"
    THEN Reply([s EXCEPT !.privateDocs = Put(@, path, body)], 201, "")
    ELSE Reply([s EXCEPT !.privateDocs = Remove(@, {path})], 200, "")

\* ------------------------------------------------------------------------
\* The request pipeline: authMiddleware, then the route handler
\* ------------------------------------------------------------------------
\* the tokens a client can present: none, or any token ever minted
Bearers == {NoToken} \cup DOMAIN issued

TokensOf(username) == {t \in DOMAIN issued : issued[t].user = username}

NoRequest ==
    [op |-> "none", username |-> Null, token |-> NoToken, method |-> Null,
     arg |-> Null, replace |-> FALSE, limited |-> FALSE, status |-> 0,
     error |-> "", accessToken |-> NoToken, refreshToken |-> NoToken]

\* authMiddleware: req.user and the stores left by db.auth(bearer)
mwUser(bearer) == authUser(Cur, bearer)
mwStore(bearer) == authStore(Cur, bearer)

\* the response of authMiddleware when limiter.tryAttempt throws
limitedStatus == 401
limitedError == "Too many attempts"

\* One request from ip, served when the client has received the response to
\* its previous one: q describes the request (fields of resp), r is what the
\* route handler returns when the middleware lets the request through,
\* subject is the user a minted pair is issued to.
Serve(ip, q, r, subject) ==
    /\ resp = NoRequest
    /\ IF ~tryAttemptOk(limiter, ip)
       THEN
         /\ resp' = [q EXCEPT !.limited = TRUE, !.status = limitedStatus,
                              !.error = limitedError]
         /\ UNCHANGED <<now, ticks, config, info, tokensJson, tokens, registry,
                        registryFile, limiter, privateDocs, nextTok, budget, issued,
                        replaced, deleted, signedOut, cleared, invalidated,
          inflight, checked, calls, portCall, pipeline, brute, shown, starting>>
       ELSE
         /\ r.accessToken # NoToken => budget > 0
         /\ budget' = IF r.accessToken # NoToken THEN budget - 1 ELSE budget
         /\ limiter' = tryAttemptReg(limiter, ip)
         /\ info' = r.s.info
         /\ tokensJson' = r.s.tokensJson
         /\ tokens' = r.s.tokens
         /\ registry' = r.s.registry
         /\ registryFile' = r.s.registryFile
         /\ privateDocs' = r.s.privateDocs
         /\ nextTok' = r.s.nextTok
         /\ resp' = [q EXCEPT !.status = r.status, !.error = r.error,
                              !.accessToken = r.accessToken,
                              !.refreshToken = r.refreshToken]
         /\ issued' = IF r.accessToken = NoToken THEN issued
                      ELSE Put(Put(issued, r.accessToken,
                                   [user |-> subject, at |-> now, isRefresh |-> FALSE,
                                    previous |-> NoToken]),
                               r.refreshToken,
                               [user |-> subject, at |-> now, isRefresh |-> TRUE,
                                previous |-> IF q.op = "refresh" THEN q.token
                                             ELSE NoToken])
         /\ replaced' = IF q.op = "refresh" /\ r.status = 200 /\ q.replace
                        THEN replaced \cup {q.token} ELSE replaced
         /\ invalidated' = IF q.op = "refresh" /\ r.status = 200 /\ q.replace
                           THEN invalidated \cup TokensOf(subject) ELSE invalidated
         /\ deleted' = IF q.op = "deleteAccount" /\ r.status = 200
                       THEN deleted \cup TokensOf(q.username) ELSE deleted
         /\ signedOut' = IF q.op = "signout" /\ r.status = 200
                         THEN signedOut \cup TokensOf(subject) ELSE signedOut
         /\ cleared' = IF q.op = "reset" /\ r.status = 200 /\ config
                       THEN cleared \cup TokensOf(q.username) ELSE cleared
         /\ UNCHANGED <<now, ticks, config, inflight, checked, calls, portCall, pipeline, brute, shown, starting>>

\* POST /auth/signup
Signup ==
    \E ip \in IPs, bearer \in {NoToken}, username \in Names \cup BadNames \cup {Undefined},
       password \in {"pw", Undefined}, email \in Emails \cup {Undefined},
       verificationCode \in Codes :
        Serve(ip, [NoRequest EXCEPT !.op = "signup", !.username = username],
              handleSignup(mwStore(bearer), username, password, email, verificationCode),
              Null)

\* PUT /auth/signup/:username
ConfirmSignup ==
    \E ip \in IPs, bearer \in {NoToken}, username \in Names, code \in CodeInputs :
        Serve(ip, [NoRequest EXCEPT !.op = "confirm", !.username = username,
                                    !.arg = code],
              handleConfirmSignup(mwStore(bearer), username, code), username)

\* DELETE /auth/signup/:username
DeleteAccount ==
    \E ip \in IPs, bearer \in {NoToken}, username \in Names :
        Serve(ip, [NoRequest EXCEPT !.op = "deleteAccount", !.username = username],
              handleDeleteAccount(mwStore(bearer), username), Null)

\* POST /auth/signin/:username
Signin ==
    \E ip \in IPs, bearer \in {NoToken}, username \in Names,
       password \in Passwords \cup {Undefined} :
        Serve(ip, [NoRequest EXCEPT !.op = "signin", !.username = username,
                                    !.arg = password],
              handleSignin(mwStore(bearer), username, password), username)

\* PUT /auth/refresh/:token
RefreshToken ==
    \E ip \in IPs, bearer \in {NoToken}, token \in DOMAIN issued, replace \in BOOLEAN :
        Serve(ip, [NoRequest EXCEPT !.op = "refresh", !.token = token,
                                    !.replace = replace],
              handleRefreshToken(mwStore(bearer), token, replace),
              authUser(mwStore(bearer), token))

\* POST /auth/forgot/:username
ForgotPassword ==
    \E ip \in IPs, bearer \in {NoToken}, username \in Names, resetCode \in Codes :
        Serve(ip, [NoRequest EXCEPT !.op = "forgot", !.username = username],
              handleForgotPassword(mwStore(bearer), username, resetCode), Null)

\* PUT /auth/forgot/:username
ResetPassword ==
    \E ip \in IPs, bearer \in {NoToken}, username \in Names, code \in CodeInputs,
       password \in {"pw"} :
        Serve(ip, [NoRequest EXCEPT !.op = "reset", !.username = username,
                                    !.arg = code],
              handleResetPassword(mwStore(bearer), username, code, password, config),
              username)

\* DELETE /auth/signin/:username
Signout ==
    \E ip \in IPs, bearer \in Bearers, username \in Names :
        Serve(ip, [NoRequest EXCEPT !.op = "signout", !.username = username,
                                    !.token = bearer],
              handleSignout(mwStore(bearer), bearer), mwUser(bearer))

\* GET | HEAD | POST | DELETE /private/*
PrivateAccess ==
    \E ip \in IPs, bearer \in Bearers, method \in Methods, path \in PrivatePaths,
       body \in Bodies :
        Serve(ip, [NoRequest EXCEPT !.op = "private", !.token = bearer,
                                    !.username = mwUser(bearer),
                                    !.method = method],
              handlePrivateAccess(mwStore(bearer), mwUser(bearer), method, path, body),
              Null)

\* the client receives the response (res.end)
Receive ==
    /\ resp # NoRequest
    /\ resp' = NoRequest
    /\ UNCHANGED <<now, ticks, config, info, tokensJson, tokens, registry,
                   registryFile, limiter, privateDocs, nextTok, budget, issued,
                   replaced, deleted, signedOut, cleared, invalidated,
          inflight, checked, calls, portCall, pipeline, brute, shown, starting>>

\* the clock advances between requests
Tick ==
    \E d \in TickSteps :
        /\ resp = NoRequest
        /\ ticks > 0
        /\ now' = now + d
        /\ ticks' = ticks - 1
        /\ UNCHANGED <<config, info, tokensJson, tokens, registry, registryFile,
                       limiter, privateDocs, nextTok, budget, resp, issued, replaced,
                       deleted, signedOut, cleared, invalidated,
          inflight, checked, calls, portCall, pipeline, brute, shown, starting>>

\* ------------------------------------------------------------------------
\* The state after start() on an empty data directory (createRootUser)
\* ------------------------------------------------------------------------
\* the request tasks, and a task that serves no request
Tasks == 1..MaxTasks

NoPair == [accessToken |-> NoToken, refreshToken |-> NoToken,
           accessExpiry |-> 0, refreshExpiry |-> 0]

Idle == [pc |-> "idle", op |-> "none", token |-> NoToken, replace |-> FALSE,
         tokenPair |-> NoPair, file |-> EmptyMap,
         username |-> Null, password |-> Null, status |-> 0]

RootUser ==
    [email |-> "root@localhost", passwordHash |-> hashPassword("root"),
     verified |-> TRUE, verificationCode |-> Null, resetCode |-> Null,
     roles |-> {"admin"}]

Started ==
    /\ now = 0
    /\ info = Put(EmptyMap, "root", RootUser)
    /\ tokensJson = Put(EmptyMap, "root",
                        Put(Put(EmptyMap, 1, [time |-> ACCESS_TOKEN_LIFETIME,
                                              isRefresh |-> FALSE]),
                            2, [time |-> REFRESH_TOKEN_LIFETIME, isRefresh |-> TRUE]))
    /\ tokens = Put(Put(EmptyMap, 1, [time |-> ACCESS_TOKEN_LIFETIME,
                                      username |-> "root", isRefresh |-> FALSE]),
                    2, [time |-> REFRESH_TOKEN_LIFETIME, username |-> "root",
                        isRefresh |-> TRUE])
    /\ registry = Put(EmptyMap, 2, [username |-> "root", createdAt |-> 0,
                                    previousToken |-> NoToken])
    /\ registryFile = EmptyMap
    /\ limiter = EmptyMap
    /\ privateDocs = EmptyMap
    /\ nextTok = 3
    /\ resp = NoRequest
    /\ issued = Put(Put(EmptyMap, 1, [user |-> "root", at |-> 0, isRefresh |-> FALSE,
                                      previous |-> NoToken]),
                    2, [user |-> "root", at |-> 0, isRefresh |-> TRUE,
                        previous |-> NoToken])
    /\ replaced = {}
    /\ deleted = {}
    /\ signedOut = {}
    /\ cleared = {}
    /\ invalidated = {}
    /\ inflight = [p \in Tasks |-> Idle]
    /\ starting = NoStart
    /\ shown = NoShown
    /\ brute = NoHits
    /\ pipeline = NoRun
    /\ portCall = NoPortCall
    /\ calls = << >>
    /\ checked = NoCheck

\* clearTokensOnPasswordReset is the deployment's choice
Init ==
    /\ Started
    /\ config \in BOOLEAN
    /\ budget = MaxPairs
    /\ ticks = MaxTicks

\* the same server with the default configuration, with room for a longer
\* rotation chain
InitRotation ==
    /\ Started
    /\ config = FALSE
    /\ budget = MaxRotationPairs
    /\ ticks = MaxRotationTicks

Next ==
    \/ Signup
    \/ ConfirmSignup
    \/ DeleteAccount
    \/ Signin
    \/ RefreshToken
    \/ ForgotPassword
    \/ ResetPassword
    \/ Signout
    \/ PrivateAccess
    \/ Receive
    \/ Tick

Spec == Init /\ [][Next]_vars

\* the server serving only the requests of an established session (signin,
\* refresh, signout, private access): a part of Spec small enough to be
\* explored with longer rotation chains
NextRotation ==
    \/ Signin
    \/ RefreshToken
    \/ Signout
    \/ PrivateAccess
    \/ Receive
    \/ Tick

SpecRotation == InitRotation /\ [][NextRotation]_vars

\* the server serving only the account endpoints (signup, confirm, delete,
\* signin, forgot, reset): the requests that read or write info.json
NextAccounts ==
    \/ Signup
    \/ ConfirmSignup
    \/ DeleteAccount
    \/ Signin
    \/ ForgotPassword
    \/ ResetPassword
    \/ Receive
    \/ Tick

SpecAccounts == Init /\ [][NextAccounts]_vars

\* ------------------------------------------------------------------------
\* Token-issuing requests for root served by concurrent request tasks.  A
\* task is suspended at the disk operations of AuthDB.updateTokens: after
\* loadDocument(tokens.json) has read the document and after saveDocument
\* has written it.  loadDocument returns the parsed content of the file.
\* ------------------------------------------------------------------------
IssuingOps == {"signin", "refresh", "reset"}

\* what the handler of op answers when it runs on the current stores
Outcome(op, token, replace, password) ==
    CASE op = "signin" -> handleSignin(Cur, "root", password)
      [] op = "refresh" -> handleRefreshToken(Cur, token, replace)
      [] op = "reset" -> handleResetPassword(Cur, "root", "111111", password, FALSE)

\* the handler passes its checks, mints a pair and updateTokens reads tokens.json
BeginIssue ==
    \E p \in Tasks, op \in IssuingOps, token \in DOMAIN issued, replace \in BOOLEAN,
       password \in Passwords :
        /\ inflight[p].pc = "idle"
        /\ budget > 0
        /\ op # "refresh" => (token = 2 /\ ~replace)
        /\ Outcome(op, token, replace, password).status = 200
        /\ info' = IF op = "reset"
                   THEN saveUser(Cur, "root",
                                 [info["root"] EXCEPT
                                     !.passwordHash = hashPassword(password),
                                     !.resetCode = Null]).info
                   ELSE info
        /\ nextTok' = Drawn(Cur).nextTok
        /\ budget' = budget - 1
        /\ inflight' = [inflight EXCEPT ![p] =
                           [Idle EXCEPT !.pc = "loaded", !.op = op, !.token = token,
                                        !.replace = replace,
                                        !.tokenPair = createTokenPair(Cur),
                                        !.file = loadTokens(Cur, "root"),
                                        !.username = "root"]]
        /\ UNCHANGED <<now, ticks, config, tokensJson, tokens, registry, registryFile,
                       limiter, privateDocs, resp, issued, replaced, deleted,
                       signedOut, cleared, invalidated, checked, calls, portCall, pipeline, brute, shown, starting>>

\* updateTokens adds the pair to the document it read and saves it
WriteTokens ==
    \E p \in Tasks :
        /\ inflight[p].pc = "loaded"
        /\ tokensJson' = updateTokensSave(Cur, "root", inflight[p].tokenPair,
                                          inflight[p].file).tokensJson
        /\ inflight' = [inflight EXCEPT ![p].pc = "saved"]
        /\ UNCHANGED <<now, ticks, config, info, tokens, registry, registryFile,
                       limiter, privateDocs, nextTok, budget, resp, issued, replaced,
                       deleted, signedOut, cleared, invalidated, checked, calls, portCall, pipeline, brute, shown, starting>>

\* updateTokens sets the in-memory map; the handler registers the refresh
\* token, invalidates the presented one when asked to replace it, saves the
\* registry and responds 200
CompleteIssue ==
    \E p \in Tasks :
        LET tokenPair == inflight[p].tokenPair
            previous == IF inflight[p].op = "refresh" THEN inflight[p].token ELSE NoToken
        IN  /\ inflight[p].pc = "saved"
            /\ tokens' = updateTokensSet(Cur, "root", tokenPair).tokens
            /\ registry' =
                  LET registered == registerToken(registry, tokenPair.refreshToken,
                                                  "root", previous)
                  IN  IF inflight[p].replace
                      THEN invalidateToken(registered, inflight[p].token)
                      ELSE registered
            /\ registryFile' = registry'
            /\ replaced' = IF inflight[p].replace
                           THEN replaced \cup {inflight[p].token} ELSE replaced
            /\ issued' = Put(Put(issued, tokenPair.accessToken,
                                 [user |-> "root", at |-> now, isRefresh |-> FALSE,
                                  previous |-> NoToken]),
                             tokenPair.refreshToken,
                             [user |-> "root", at |-> now, isRefresh |-> TRUE,
                              previous |-> previous])
            /\ inflight' = [inflight EXCEPT ![p].pc = "done"]
            /\ UNCHANGED <<now, ticks, config, info, tokensJson, limiter, privateDocs,
                           nextTok, budget, resp, deleted, signedOut,
                           cleared, invalidated, checked, calls, portCall, pipeline, brute, shown, starting>>

\* the started server after root has asked for a reset code
InitConcurrent ==
    /\ now = 0
    /\ info = Put(EmptyMap, "root", [RootUser EXCEPT !.resetCode = "111111"])
    /\ tokensJson = Put(EmptyMap, "root",
                        Put(Put(EmptyMap, 1, [time |-> ACCESS_TOKEN_LIFETIME,
                                              isRefresh |-> FALSE]),
                            2, [time |-> REFRESH_TOKEN_LIFETIME, isRefresh |-> TRUE]))
    /\ tokens = Put(Put(EmptyMap, 1, [time |-> ACCESS_TOKEN_LIFETIME,
                                      username |-> "root", isRefresh |-> FALSE]),
                    2, [time |-> REFRESH_TOKEN_LIFETIME, username |-> "root",
                        isRefresh |-> TRUE])
    /\ registry = Put(EmptyMap, 2, [username |-> "root", createdAt |-> 0,
                                    previousToken |-> NoToken])
    /\ registryFile = EmptyMap
    /\ limiter = EmptyMap
    /\ privateDocs = EmptyMap
    /\ nextTok = 3
    /\ resp = NoRequest
    /\ issued = Put(Put(EmptyMap, 1, [user |-> "root", at |-> 0, isRefresh |-> FALSE,
                                      previous |-> NoToken]),
                    2, [user |-> "root", at |-> 0, isRefresh |-> TRUE,
                        previous |-> NoToken])
    /\ replaced = {}
    /\ deleted = {}
    /\ signedOut = {}
    /\ cleared = {}
    /\ invalidated = {}
    /\ inflight = [p \in Tasks |-> Idle]
    /\ starting = NoStart
    /\ shown = NoShown
    /\ brute = NoHits
    /\ pipeline = NoRun
    /\ portCall = NoPortCall
    /\ calls = << >>
    /\ checked = NoCheck
    /\ config = FALSE
    /\ budget = MaxTasks
    /\ ticks = 0

NextConcurrent ==
    \/ BeginIssue
    \/ WriteTokens
    \/ CompleteIssue

SpecConcurrent == InitConcurrent /\ [][NextConcurrent]_vars

\* ------------------------------------------------------------------------
\* The TokenRotationRegistry on its own: a fresh registry driven through its
\* public methods with arbitrary arguments.  resp records the last call:
\* op, token, username and status 1 (true / token was registered) or 0.
\* ------------------------------------------------------------------------
RegTokens == 1..MaxRegTokens

Called(op, token, username, result) ==
    resp' = [NoRequest EXCEPT !.op = op, !.token = token, !.username = username,
                              !.status = IF result THEN 1 ELSE 0]

RegKeep == UNCHANGED <<now, ticks, config, info, tokensJson, tokens, registryFile,
                       limiter, privateDocs, nextTok, budget, replaced, deleted,
                       signedOut, cleared, invalidated,
          inflight, checked, calls, portCall, pipeline, brute, shown, starting>>

RegisterToken ==
    \E token \in RegTokens, username \in Names, previousToken \in {NoToken} \cup RegTokens :
        /\ resp = NoRequest
        /\ registry' = registerToken(registry, token, username, previousToken)
        /\ issued' = Put(issued, token, [user |-> username, at |-> now,
                                         isRefresh |-> TRUE, previous |-> previousToken])
        /\ Called("registerToken", token, username, TRUE)
        /\ RegKeep

ValidateToken ==
    \E token \in RegTokens, username \in Names :
        /\ resp = NoRequest
        /\ registry' = validateTokenReg(registry, token)
        /\ Called("validateToken", token, username, validateToken(registry, token, username))
        /\ UNCHANGED issued
        /\ RegKeep

InvalidateToken ==
    \E token \in RegTokens :
        /\ resp = NoRequest
        /\ registry' = invalidateToken(registry, token)
        /\ Called("invalidateToken", token, Null, token \in DOMAIN registry)
        /\ UNCHANGED issued
        /\ RegKeep

ClearUserTokens ==
    \E username \in Names :
        /\ resp = NoRequest
        /\ registry' = clearUserTokens(registry, username)
        /\ Called("clearUserTokens", NoToken, username, TRUE)
        /\ UNCHANGED issued
        /\ RegKeep

Cleanup ==
    /\ resp = NoRequest
    /\ registry' = cleanup(registry)
    /\ Called("cleanup", NoToken, Null, TRUE)
    /\ UNCHANGED issued
    /\ RegKeep

\* the clock advances between calls, by the registry's maximum age
Age ==
    /\ resp = NoRequest
    /\ ticks > 0
    /\ now' = now + maxAge
    /\ ticks' = ticks - 1
    /\ UNCHANGED <<config, info, tokensJson, tokens, registry, registryFile,
                   limiter, privateDocs, nextTok, budget, resp, issued, replaced,
                   deleted, signedOut, cleared, invalidated,
          inflight, checked, calls, portCall, pipeline, brute, shown, starting>>

\* new TokenRotationRegistry(): an empty map
InitRegistry ==
    /\ now = 0
    /\ ticks = MaxTicks
    /\ config = FALSE
    /\ info = EmptyMap
    /\ tokensJson = EmptyMap
    /\ tokens = EmptyMap
    /\ registry = EmptyMap
    /\ registryFile = EmptyMap
    /\ limiter = EmptyMap
    /\ privateDocs = EmptyMap
    /\ nextTok = 1
    /\ budget = 0
    /\ resp = NoRequest
    /\ issued = EmptyMap
    /\ replaced = {}
    /\ deleted = {}
    /\ signedOut = {}
    /\ cleared = {}
    /\ invalidated = {}
    /\ inflight = [p \in Tasks |-> Idle]
    /\ starting = NoStart
    /\ shown = NoShown
    /\ brute = NoHits
    /\ pipeline = NoRun
    /\ portCall = NoPortCall
    /\ calls = << >>
    /\ checked = NoCheck

NextRegistry ==
    \/ RegisterToken
    \/ ValidateToken
    \/ InvalidateToken
    \/ ClearUserTokens
    \/ Cleanup
    \/ Receive
    \/ Age

SpecRegistry == InitRegistry /\ [][NextRegistry]_vars

\* ------------------------------------------------------------------------
\* AccessControl.check on its own, over access files of up to MaxRules
\* global rules, one rule per user file and up to two group lines
\* ------------------------------------------------------------------------
Subjects == {ANY, "staff"}
AccessStrings == {{"r"}, {"r", "w"}}
\* "" (a line without target),  "d",  "/d/a"
Targets == {<< >>, <<"d">>, <<"/", "d", "/", "a">>}
\* "d/a",  "/p"
Paths == {<<"d", "/", "a">>, <<"/", "p">>}
Levels == {READ, WRITE}

\* the rules _parseAccessFile yields for the lines of .access
GlobalFiles ==
    UNION {[1..n -> [subject : Subjects, access : AccessStrings, target : Targets]] :
              n \in 0..MaxRules}

\* ... and for an access.txt of at most one line, granting read access
UserFiles(username) ==
    {<< >>} \cup {<<rule>> : rule \in [subject : {username}, access : {{"r"}},
                                       target : Targets]}

\* the member that names group as a member of another group:  ".devs"
GroupRef(group) ==
    CASE group = "devs" -> ".devs"
      [] group = "staff" -> ".staff"

\* no .group;   staff alice;   staff .devs / devs alice
GroupFiles ==
    {<< >>,
     << <<"staff", "alice">> >>,
     << <<"staff", GroupRef("devs")>>, <<"devs", "alice">> >>}

Check ==
    \E username \in Names, path \in Paths, level \in Levels :
        /\ checked' = [checked EXCEPT !.asked = TRUE, !.username = username,
                                      !.path = path, !.level = level,
                                      !.result = checkOn(checked.db, username, path, level)]
        /\ UNCHANGED <<now, ticks, config, info, tokensJson, tokens, registry,
                       registryFile, limiter, privateDocs, nextTok, budget, resp,
                       issued, replaced, deleted, signedOut, cleared, invalidated,
                       inflight, calls, portCall, pipeline, brute, shown, starting>>

\* new AccessControl(db) on a data directory holding only access files
InitAccess ==
    /\ now = 0
    /\ ticks = 0
    /\ config = FALSE
    /\ info = EmptyMap
    /\ tokensJson = EmptyMap
    /\ tokens = EmptyMap
    /\ registry = EmptyMap
    /\ registryFile = EmptyMap
    /\ limiter = EmptyMap
    /\ privateDocs = EmptyMap
    /\ nextTok = 1
    /\ budget = 0
    /\ resp = NoRequest
    /\ issued = EmptyMap
    /\ replaced = {}
    /\ deleted = {}
    /\ signedOut = {}
    /\ cleared = {}
    /\ invalidated = {}
    /\ inflight = [p \in Tasks |-> Idle]
    /\ starting = NoStart
    /\ shown = NoShown
    /\ brute = NoHits
    /\ pipeline = NoRun
    /\ portCall = NoPortCall
    /\ calls = << >>
    /\ \E access \in GlobalFiles, group \in GroupFiles,
          userAccess \in [Names -> UNION {UserFiles(username) : username \in Names}] :
            /\ \A username \in Names : userAccess[username] \in UserFiles(username)
            /\ checked = [NoCheck EXCEPT !.db = [access |-> access, group |-> group,
                                                 userAccess |-> userAccess]]

NextAccess == Check

SpecAccess == InitAccess /\ [][NextAccess]_vars

\* ------------------------------------------------------------------------
\* RateLimiter on its own: tryAttempt calls for two keys as time passes
\* ------------------------------------------------------------------------
LimiterKeys == {"10.0.0.1", "10.0.0.2"}

\* await limiter.tryAttempt(ip): accepted (true) or refused (throws)
Attempt ==
    \E ip \in LimiterKeys :
        /\ Len(calls) < MaxCalls
        /\ limiter' = tryAttemptReg(limiter, ip)
        /\ calls' = Append(calls, [ip |-> ip, at |-> now,
                                   accepted |-> tryAttemptOk(limiter, ip)])
        /\ UNCHANGED <<now, ticks, config, info, tokensJson, tokens, registry,
                       registryFile, privateDocs, nextTok, budget, resp, issued,
                       replaced, deleted, signedOut, cleared, invalidated, inflight,
                       checked, portCall, pipeline, brute, shown, starting>>

\* Date.now() advances by the length of the window
Elapse ==
    /\ ticks > 0
    /\ now' = now + windowMs
    /\ ticks' = ticks - 1
    /\ UNCHANGED <<config, info, tokensJson, tokens, registry, registryFile, limiter,
                   privateDocs, nextTok, budget, resp, issued, replaced, deleted,
                   signedOut, cleared, invalidated, inflight, checked, calls, portCall, pipeline, brute, shown, starting>>

\* new RateLimiter(maxAttempts, windowMs)
InitLimiter ==
    /\ now = 0
    /\ ticks = MaxElapse
    /\ config = FALSE
    /\ info = EmptyMap
    /\ tokensJson = EmptyMap
    /\ tokens = EmptyMap
    /\ registry = EmptyMap
    /\ registryFile = EmptyMap
    /\ limiter = EmptyMap
    /\ privateDocs = EmptyMap
    /\ nextTok = 1
    /\ budget = 0
    /\ resp = NoRequest
    /\ issued = EmptyMap
    /\ replaced = {}
    /\ deleted = {}
    /\ signedOut = {}
    /\ cleared = {}
    /\ invalidated = {}
    /\ inflight = [p \in Tasks |-> Idle]
    /\ starting = NoStart
    /\ shown = NoShown
    /\ brute = NoHits
    /\ pipeline = NoRun
    /\ portCall = NoPortCall
    /\ checked = NoCheck
    /\ calls = << >>

NextLimiter ==
    \/ Attempt
    \/ Elapse

SpecLimiter == InitLimiter /\ [][NextLimiter]_vars

\* ------------------------------------------------------------------------
\* ServerConfig on its own: getPort on port specifications of up to MaxPorts
\* numbers in any order
\* ------------------------------------------------------------------------
PortValues == {8, 9, 10, 100}
PrevValues == {0, 8, 9, 10, 50, 100}

\* config.getPort(prev)
GetPort ==
    \E prev \in PrevValues :
        /\ portCall' = [portCall EXCEPT !.asked = TRUE, !.prev = prev,
                                        !.result = getPort(portCall.ports, prev)]
        /\ UNCHANGED <<now, ticks, config, info, tokensJson, tokens, registry,
                       registryFile, limiter, privateDocs, nextTok, budget, resp,
                       issued, replaced, deleted, signedOut, cleared, invalidated,
                       inflight, checked, calls, pipeline, brute, shown, starting>>

\* new ServerConfig({ port: [...] })
InitPorts ==
    /\ now = 0
    /\ ticks = 0
    /\ config = FALSE
    /\ info = EmptyMap
    /\ tokensJson = EmptyMap
    /\ tokens = EmptyMap
    /\ registry = EmptyMap
    /\ registryFile = EmptyMap
    /\ limiter = EmptyMap
    /\ privateDocs = EmptyMap
    /\ nextTok = 1
    /\ budget = 0
    /\ resp = NoRequest
    /\ issued = EmptyMap
    /\ replaced = {}
    /\ deleted = {}
    /\ signedOut = {}
    /\ cleared = {}
    /\ invalidated = {}
    /\ inflight = [p \in Tasks |-> Idle]
    /\ starting = NoStart
    /\ shown = NoShown
    /\ brute = NoHits
    /\ pipeline = NoRun
    /\ checked = NoCheck
    /\ calls = << >>
    /\ \E n \in 1..MaxPorts : \E ports \in [1..n -> PortValues] :
          portCall = [NoPortCall EXCEPT !.ports = ports]

NextPorts == GetPort

SpecPorts == InitPorts /\ [][NextPorts]_vars

\* ------------------------------------------------------------------------
\* runMiddlewares on its own, over up to MaxMiddlewares middlewares
\* ------------------------------------------------------------------------
Behaviours ==
    {<< >>, <<"next">>, <<"respond">>, <<"next", "next">>, <<"respond", "next">>,
     <<"next", "respond">>}

\* the pending call on top of the stack and what its body does next
Top == pipeline.stack[Len(pipeline.stack)]
Body == pipeline.middlewares[Top.mw]
Advanced == [pipeline EXCEPT !.stack[Len(pipeline.stack)].pc = @ + 1]

OthersUnchanged ==
    UNCHANGED <<now, ticks, config, info, tokensJson, tokens, registry, registryFile,
                limiter, privateDocs, nextTok, budget, resp, issued, replaced,
                deleted, signedOut, cleared, invalidated, inflight, checked, calls,
                portCall, brute, shown, starting>>

\* runMiddlewares(req, res, middlewares, finalHandler): await next()
Run ==
    /\ pipeline.phase = "new"
    /\ pipeline' = next([pipeline EXCEPT !.phase = "running"], 0)
    /\ OthersUnchanged

\* the running middleware commits a response
MiddlewareResponds ==
    /\ pipeline.phase = "running"
    /\ pipeline.stack # << >>
    /\ Top.pc <= Len(Body)
    /\ Body[Top.pc] = "respond"
    /\ pipeline' = [Advanced EXCEPT !.headersSent = TRUE]
    /\ OthersUnchanged

\* the running middleware calls await next()
MiddlewareCallsNext ==
    /\ pipeline.phase = "running"
    /\ pipeline.stack # << >>
    /\ Top.pc <= Len(Body)
    /\ Body[Top.pc] = "next"
    /\ pipeline' = next(Advanced, Top.mw)
    /\ OthersUnchanged

\* the running middleware returns to the next() that invoked it
MiddlewareReturns ==
    /\ pipeline.phase = "running"
    /\ pipeline.stack # << >>
    /\ Top.pc > Len(Body)
    /\ pipeline' = [pipeline EXCEPT !.stack = SubSeq(@, 1, Len(@) - 1)]
    /\ OthersUnchanged

\* the first next() returns to runMiddlewares
RunReturns ==
    /\ pipeline.phase = "running"
    /\ pipeline.stack = << >>
    /\ pipeline' = [pipeline EXCEPT !.phase = "returned"]
    /\ OthersUnchanged

InitPipeline ==
    /\ now = 0
    /\ ticks = 0
    /\ config = FALSE
    /\ info = EmptyMap
    /\ tokensJson = EmptyMap
    /\ tokens = EmptyMap
    /\ registry = EmptyMap
    /\ registryFile = EmptyMap
    /\ limiter = EmptyMap
    /\ privateDocs = EmptyMap
    /\ nextTok = 1
    /\ budget = 0
    /\ resp = NoRequest
    /\ issued = EmptyMap
    /\ replaced = {}
    /\ deleted = {}
    /\ signedOut = {}
    /\ cleared = {}
    /\ invalidated = {}
    /\ inflight = [p \in Tasks |-> Idle]
    /\ starting = NoStart
    /\ shown = NoShown
    /\ brute = NoHits
    /\ checked = NoCheck
    /\ calls = << >>
    /\ portCall = NoPortCall
    /\ \E n \in 0..MaxMiddlewares : \E middlewares \in [1..n -> Behaviours],
          finalResponds \in BOOLEAN :
            pipeline = [NoRun EXCEPT !.middlewares = middlewares,
                                     !.finalResponds = finalResponds]

NextPipeline ==
    \/ Run
    \/ MiddlewareResponds
    \/ MiddlewareCallsNext
    \/ MiddlewareReturns
    \/ RunReturns

SpecPipeline == InitPipeline /\ [][NextPipeline]_vars

\* ------------------------------------------------------------------------
\* bruteForce on its own: requests from two addresses for two paths
\* ------------------------------------------------------------------------
Addresses == {"10.0.0.1", "10.0.0.2"}
Pathnames == {"/test", "/auth"}

\* a request from ip for pathname goes through the middleware
Hit ==
    \E ip \in Addresses, pathname \in Pathnames :
        LET r == bruteForce(brute.hits, <<ip, pathname>>)
        IN  /\ Len(brute.log) < MaxHits
            /\ brute' = [hits |-> r.hits,
                         log |-> Append(brute.log,
                                        [key |-> <<ip, pathname>>, at |-> now,
                                         passed |-> r.passed, status |-> r.status])]
            /\ UNCHANGED <<now, ticks, config, info, tokensJson, tokens, registry,
                           registryFile, limiter, privateDocs, nextTok, budget, resp,
                           issued, replaced, deleted, signedOut, cleared,
                           invalidated, inflight, checked, calls, portCall, pipeline, shown, starting>>

\* Date.now() advances by the length of the window
Wait ==
    /\ ticks > 0
    /\ now' = now + options.windowMs
    /\ ticks' = ticks - 1
    /\ UNCHANGED <<config, info, tokensJson, tokens, registry, registryFile, limiter,
                   privateDocs, nextTok, budget, resp, issued, replaced, deleted,
                   signedOut, cleared, invalidated, inflight, checked, calls,
                   portCall, pipeline, brute, shown, starting>>

\* bruteForce(options)
InitBrute ==
    /\ now = 0
    /\ ticks = MaxElapse
    /\ config = FALSE
    /\ info = EmptyMap
    /\ tokensJson = EmptyMap
    /\ tokens = EmptyMap
    /\ registry = EmptyMap
    /\ registryFile = EmptyMap
    /\ limiter = EmptyMap
    /\ privateDocs = EmptyMap
    /\ nextTok = 1
    /\ budget = 0
    /\ resp = NoRequest
    /\ issued = EmptyMap
    /\ replaced = {}
    /\ deleted = {}
    /\ signedOut = {}
    /\ cleared = {}
    /\ invalidated = {}
    /\ inflight = [p \in Tasks |-> Idle]
    /\ starting = NoStart
    /\ shown = NoShown
    /\ checked = NoCheck
    /\ calls = << >>
    /\ portCall = NoPortCall
    /\ pipeline = NoRun
    /\ brute = NoHits

NextBrute ==
    \/ Hit
    \/ Wait

SpecBrute == InitBrute /\ [][NextBrute]_vars

\* ------------------------------------------------------------------------
\* Properties
\* ------------------------------------------------------------------------
\* a request is served exactly in the steps that put a response in flight
Served == resp = NoRequest /\ resp' # NoRequest

\* the lifetime the documentation gives a token: 1 hour, or 30 days
Lifetime(t) ==
    IF issued[t].isRefresh THEN REFRESH_TOKEN_LIFETIME ELSE ACCESS_TOKEN_LIFETIME

\* C1: once a refresh presenting t with replace=true has returned 200, every
\* later refresh request presenting t is answered 401 and mints no pair.
C1_ReplacedRefreshRefused ==
    [][(Served /\ resp'.op = "refresh" /\ resp'.token \in replaced)
          => /\ resp'.status = 401
             /\ resp'.accessToken = NoToken /\ resp'.refreshToken = NoToken
             /\ nextTok' = nextTok
             /\ DOMAIN tokens' \subseteq DOMAIN tokens
             /\ DOMAIN registry' \subseteq DOMAIN registry]_vars

\* a replaced token that AuthDB still authenticates is presented again, passes
\* the rate limiter, and is refused
C1_Witness ==
    /\ resp.op = "refresh"
    /\ ~resp.limited
    /\ resp.token \in replaced
    /\ resp.status = 401
    /\ authUser(Cur, resp.token) = "root"

\* C2: after a 200 delete-account for u, no token issued to u before the
\* deletion authenticates and none of them is left in the rotation registry.
C2_DeletedTokensDead ==
    \A t \in deleted :
        /\ authUser(Cur, t) = Null
        /\ t \notin DOMAIN registry

\* C3: after every request, the rotation registry holds exactly the refresh
\* tokens of AuthDB.tokens.
C3_RegistryMirrorsTokens ==
    DOMAIN registry = {t \in DOMAIN tokens : tokens[t].isRefresh}

\* the tokens reached from t by following the previous-token links recorded
\* at registration
RECURSIVE AncestorsFrom(_, _)
AncestorsFrom(x, seen) ==
    IF x \notin DOMAIN issued THEN seen
    ELSE LET p == issued[x].previous
         IN  IF p = NoToken \/ p \in seen THEN seen
             ELSE AncestorsFrom(p, seen \cup {p})

Ancestors(t) == AncestorsFrom(t, {})

\* C4: right after invalidateToken(t) on a registered token t, t and every
\* ancestor of t are absent from the registry.
C4_AncestorsAbsent ==
    (resp.op = "invalidateToken" /\ resp.status = 1)
        => \A a \in Ancestors(resp.token) \cup {resp.token} : a \notin DOMAIN registry

\* C5: a token does not authenticate once its documented lifetime (1 hour for
\* an access token, 30 days for a refresh token) has passed since it was minted.
C5_ExpiredTokensRefused ==
    \A t \in DOMAIN issued :
        now >= issued[t].at + Lifetime(t) => authUser(Cur, t) = Null

\* C6: a request the rate limiter refuses is answered 429 with the error
\* "Too many requests".
C6_LimitedIs429 ==
    resp.limited => resp.status = 429 /\ resp.error = "Too many requests"

C8_UnverifiedSigninRefused ==
    [][(/\ Served
        /\ resp'.op = "signin"
        /\ ~resp'.limited
        /\ resp'.username \in DOMAIN info
        /\ ~info[resp'.username].verified)
          => /\ resp'.status = 403
             /\ resp'.accessToken = NoToken /\ resp'.refreshToken = NoToken
             /\ nextTok' = nextTok
             /\ tokens' = tokens
             /\ tokensJson' = tokensJson
             /\ registry' = registry]_vars

\* an unverified user signs in with the right password and is refused
C8_Witness ==
    /\ resp.op = "signin"
    /\ resp.status = 403
    /\ resp.username \in DOMAIN info
    /\ ~info[resp.username].verified
    /\ info[resp.username].passwordHash = hashPassword(resp.arg)

\* the level the documentation derives from the method
DocumentedLevel(method) ==
    CASE method \in {"GET", "HEAD"} -> "r"
      [] method = "POST" -> "w"
      [] method = "DELETE" -> "d"

\* the bearer authenticates a user who is granted the level of the method
Granted(token, method) ==
    /\ authUser(Cur, token) # Null
    /\ check(authUser(Cur, token), PathDA, DocumentedLevel(method))

\* C9: the private documents change only in a /private/ request whose bearer
\* authenticates a user granted the level of its method; any other /private/
\* request is answered 401 (no user) or 403 (not granted) and leaves the
\* documents as they were.
C9_PrivateGuarded ==
    [][/\ (Served /\ resp'.op = "private" /\ ~Granted(resp'.token, resp'.method))
            => /\ resp'.status \in {401, 403}
               /\ privateDocs' = privateDocs
               /\ (authUser(Cur, resp'.token) = Null => resp'.status = 401)
               /\ (authUser(Cur, resp'.token) # Null /\ ~resp'.limited
                      => resp'.status = 403)
       /\ (privateDocs' # privateDocs)
            => /\ Served
               /\ resp'.op = "private"
               /\ Granted(resp'.token, resp'.method)]_vars

\* root, who may only read d/a, is refused a POST to the document alice wrote
C9_Witness ==
    /\ resp.op = "private"
    /\ resp.method = "POST"
    /\ resp.username = "root"
    /\ resp.status = 403
    /\ PathDA \in DOMAIN privateDocs

\* tokens whose user has been signed out, deleted, cleared or invalidated
Revoked == deleted \cup signedOut \cup cleared \cup invalidated

\* C10: a token of a pair returned by signin, confirm-signup, reset or refresh
\* authenticates as the user it was issued to until its documented expiry,
\* unless a signout, deletion, clearing or invalidation for that user came
\* after it.
C10_IssuedTokensAuthenticate ==
    \A t \in DOMAIN issued :
        (t > 2 /\ now < issued[t].at + Lifetime(t) /\ t \notin Revoked)
            => authUser(Cur, t) = issued[t].user

\* some time after alice received a pair her refresh token still authenticates
C10_Witness ==
    \E t \in DOMAIN issued :
        /\ t > 2
        /\ issued[t].isRefresh
        /\ issued[t].user = "alice"
        /\ t \notin Revoked
        /\ issued[t].at < now
        /\ now < issued[t].at + Lifetime(t)
        /\ authUser(Cur, t) = "alice"

\* the users whose on-disk tokens.json records token t
FilesHolding(t) == {u \in DOMAIN tokensJson : t \in DOMAIN tokensJson[u]}

\* C11: a token is in the in-memory AuthDB.tokens exactly when exactly one
\* user's tokens.json records it.
C11_StoreMirrorsDisk ==
    \A t \in DOMAIN issued :
        (t \in DOMAIN tokens) <=> (Cardinality(FilesHolding(t)) = 1)

\* C12: when every concurrent token-issuing request for root has completed,
\* root's tokens.json holds both tokens of every pair that was minted.
C12_NoLostUpdate ==
    (\A p \in Tasks : inflight[p].pc = "done")
        => \A p \in Tasks :
              {inflight[p].tokenPair.accessToken, inflight[p].tokenPair.refreshToken}
                  \subseteq DOMAIN loadTokens(Cur, "root")

C14_ResetInvalidatesAll ==
    (resp.op = "reset" /\ resp.status = 200)
        => \A t \in TokensOf(resp.username) \ {resp.accessToken, resp.refreshToken} :
              authUser(Cur, t) = Null

\* C15: once a refresh presenting t with replace=true has returned 200,
\* AuthDB.auth no longer accepts t.
C15_ReplacedTokenRejectedByAuth ==
    \A t \in replaced : authUser(Cur, t) = Null

\* C16: a signout request for :username whose bearer token authenticates as a
\* different user is answered 403 and clears no tokens.
C16_ForeignSignoutForbidden ==
    [][(/\ Served
        /\ resp'.op = "signout"
        /\ ~resp'.limited
        /\ authUser(Cur, resp'.token) \notin {Null, resp'.username})
          => /\ resp'.status = 403
             /\ tokens' = tokens
             /\ tokensJson' = tokensJson
             /\ registry' = registry]_vars

\* C17: a signup whose username does not match [A-Za-z0-9_-]{3,32} is
\* answered 400 and stores no user of that name.
C17_BadUsernameIs400 ==
    (/\ resp.op = "signup"
     /\ ~resp.limited
     /\ ~Missing(resp.username)
     /\ ~validUsername(resp.username))
        => /\ resp.status = 400
           /\ resp.username \notin DOMAIN info

\* C18: in every state the server reaches, a signup carrying all required
\* fields and naming an existing user is answered 409 by the handler and
\* leaves every store (user records, tokens.json, AuthDB.tokens, registry,
\* registry document) as it was; and a 409 is only ever the answer to a signup
\* naming an existing user.
C18_DuplicateSignupIs409 ==
    /\ \A username \in DOMAIN info, password \in Passwords, email \in Emails,
          verificationCode \in Codes :
            LET r == handleSignup(Cur, username, password, email, verificationCode)
            IN  r.status = 409 /\ r.s = Cur
    /\ (resp.op = "signup" /\ resp.status = 409) => resp.username \in DOMAIN info

\* a signup naming a user who holds tokens has been answered 409
C18_Witness ==
    /\ resp.op = "signup"
    /\ resp.status = 409
    /\ resp.username \in DOMAIN info
    /\ \E t \in DOMAIN tokens : tokens[t].username = resp.username

\* C19: a confirm-signup for an existing unverified user whose code differs
\* from the stored verification code is answered 401 and changes neither the
\* user records nor any token store, whatever requests came before it (a
\* request refused by the rate limiter is answered 401 as well).
C19_MismatchIs401 ==
    [][(/\ Served
        /\ resp'.op = "confirm"
        /\ resp'.username \in DOMAIN info
        /\ ~info[resp'.username].verified
        /\ resp'.arg # info[resp'.username].verificationCode)
          => /\ resp'.status = 401
             /\ info' = info
             /\ tokens' = tokens
             /\ tokensJson' = tokensJson
             /\ registry' = registry
             /\ registryFile' = registryFile
             /\ nextTok' = nextTok]_vars

\* the handler has answered 401 to a mismatching code for an unverified user,
\* as the last request the rate limiter admits in its window
C19_Witness ==
    /\ resp.op = "confirm"
    /\ ~resp.limited
    /\ resp.status = 401
    /\ resp.username \in DOMAIN info
    /\ ~info[resp.username].verified
    /\ resp.arg # info[resp.username].verificationCode
    /\ \E ip \in DOMAIN limiter : limiter[ip].count = maxAttempts

\* the rules the claim consults for username: those of the user's own file,
\* the global rules whose subject is a group listing the user, and the global
\* rules with subject *
RulesFor(db, username) ==
    {db.userAccess[username][i] : i \in 1..Len(db.userAccess[username])}
    \cup {db.access[i] : i \in {j \in 1..Len(db.access) :
             \/ db.access[j].subject = ANY
             \/ \E g \in 1..Len(db.group) :
                   /\ db.group[g][1] = db.access[j].subject
                   /\ \E k \in 2..Len(db.group[g]) : db.group[g][k] = username}}

\* the rule has the level in its access string and its target, normalised to
\* a leading /, is a prefix of the normalised path
Grants(rule, path, level) ==
    /\ level \in rule.access
    /\ startsWith(withSlash(path), withSlash(rule.target))

Lists(db, group, member) ==
    \E g \in 1..Len(db.group) :
        /\ db.group[g][1] = group
        /\ \E k \in 2..Len(db.group[g]) : db.group[g][k] = member

\* C21: when .group lists .G2 as a member of G1 and the user as a member of
\* G2, G1 is among the user's groups and a rule granted to G1 that matches
\* the path and level makes check return true.
C21_GroupReferenceResolved ==
    checked.asked =>
        \A G1 \in {"staff", "devs"}, G2 \in {"staff", "devs"} :
            (Lists(checked.db, G1, GroupRef(G2)) /\ Lists(checked.db, G2, checked.username))
                => /\ G1 \in _getUserGroups(checked.db, checked.username)
                   /\ \A i \in 1..Len(checked.db.access) :
                         (/\ checked.db.access[i].subject = G1
                          /\ checked.db.access[i].target # << >>
                          /\ Grants(checked.db.access[i], checked.path, checked.level))
                            => checked.result

\* the calls for ip accepted in the window of the record L holds for ip: the
\* span of windowMs starting at the record's timestamp
AcceptedInWindow(L, ip) ==
    {i \in 1..Len(calls) :
        /\ calls[i].ip = ip
        /\ calls[i].accepted
        /\ calls[i].at >= L[ip].timestamp
        /\ calls[i].at - L[ip].timestamp <= windowMs}

\* C22: for every key at most maxAttempts calls are accepted within the
\* window of its record, and a call made inside the window once maxAttempts
\* calls were accepted in it is refused.
C22_AtMostMaxPerWindow ==
    /\ [](\A ip \in DOMAIN limiter :
            Cardinality(AcceptedInWindow(limiter, ip)) <= maxAttempts)
    /\ [][\A ip \in DOMAIN limiter :
            (/\ Len(calls') = Len(calls) + 1
             /\ calls'[Len(calls')].ip = ip
             /\ now - limiter[ip].timestamp <= windowMs
             /\ Cardinality(AcceptedInWindow(limiter, ip)) >= maxAttempts)
                => ~calls'[Len(calls')].accepted]_vars

\* a key has had maxAttempts calls accepted in its window and a later call
\* in the same window refused, while a call for the other key was accepted
C22_Witness ==
    \E ip \in DOMAIN limiter, i \in 1..Len(calls), j \in 1..Len(calls) :
        /\ Cardinality(AcceptedInWindow(limiter, ip)) = maxAttempts
        /\ calls[i].ip = ip /\ ~calls[i].accepted
        /\ calls[i].at - limiter[ip].timestamp <= windowMs
        /\ calls[j].ip # ip /\ calls[j].accepted

\* C23: a refused tryAttempt leaves the registry as it was, and an attempt
\* made more than windowMs after the timestamp of the key's record is
\* accepted and sets the record to {timestamp: now, count: 1}.
C23_RefusalKeepsWindow ==
    [][\A ip \in LimiterKeys :
        (Len(calls') = Len(calls) + 1 /\ calls'[Len(calls')].ip = ip)
            => /\ ~calls'[Len(calls')].accepted => limiter' = limiter
               /\ (ip \in DOMAIN limiter /\ now - limiter[ip].timestamp > windowMs)
                     => /\ calls'[Len(calls')].accepted
                        /\ limiter'[ip] = [timestamp |-> now, count |-> 1]]_vars

\* a key was refused and, more than windowMs after its record's timestamp,
\* its next call is accepted and the record restarts at that call
C23_Witness ==
    \E i \in 1..Len(calls) :
        /\ i < Len(calls)
        /\ ~calls[i].accepted
        /\ calls[Len(calls)].ip = calls[i].ip
        /\ calls[Len(calls)].accepted
        /\ calls[Len(calls)].at = now
        /\ limiter[calls[i].ip] = [timestamp |-> now, count |-> 1]

\* the listed ports as a set, and those above prev
Listed == {portCall.ports[i] : i \in 1..Len(portCall.ports)}
Above(prev) == {no \in Listed : no > prev}
Least(S) == CHOOSE no \in S : \A other \in S : no <= other
Greatest(S) == CHOOSE no \in S : \A other \in S : no >= other

\* C24: for a list of three or more ports in any order getPort(prev) returns
\* the numerically smallest listed port above prev, and throws 'Out of list'
\* when no listed port is above prev.
C24_NextListedPort ==
    (portCall.asked /\ Len(portCall.ports) >= 3)
        => IF Above(portCall.prev) = {}
           THEN portCall.result.error = "Out of list"
           ELSE portCall.result = Port(Least(Above(portCall.prev)))

\* C25: for two ports in either order, with min and max the numerically
\* smaller and larger, getPort(0) returns min, getPort(prev) returns
\* max(prev, min) + 1 for prev # 0, and 'Out of range' is thrown when that
\* result is above max.
C25_NextPortInRange ==
    (portCall.asked /\ Len(portCall.ports) = 2)
        => LET min == Least(Listed)
               max == Greatest(Listed)
               current == IF portCall.prev = 0 THEN min
                          ELSE (IF portCall.prev > min THEN portCall.prev ELSE min) + 1
           IN  IF current > max
               THEN portCall.result.error = "Out of range"
               ELSE portCall.result = Port(current)

\* positions of the log where something of the given kind happened for who
Events(kind, who) ==
    {i \in 1..Len(pipeline.log) :
        pipeline.log[i].kind = kind /\ pipeline.log[i].who = who}

\* the middlewares are invoked in registration order: the k-th invocation is
\* that of the k-th middleware
InRegistrationOrder ==
    \A i \in 1..Len(pipeline.log) :
        pipeline.log[i].kind = "invoke"
            => pipeline.log[i].who =
                  Cardinality({j \in 1..i : pipeline.log[j].kind = "invoke"})

\* a middleware other than the first is invoked only after the one
\* registered before it has called next()
AfterPredecessor ==
    \A i \in 1..Len(pipeline.log) :
        (pipeline.log[i].kind = "invoke" /\ pipeline.log[i].who > 1)
            => \E j \in Events("next", pipeline.log[i].who - 1) : j < i

\* the final handler is invoked at most once, and only after the last
\* middleware has called next()
FinalAfterLast ==
    /\ Cardinality(Events("final", 0)) <= 1
    /\ \A i \in Events("final", 0) :
          \E j \in Events("next", Len(pipeline.middlewares)) : j < i

\* when the run has returned, every middleware has called next() and none
\* has committed a response, the final handler has been invoked
FinalReached ==
    (/\ pipeline.phase = "returned"
     /\ \A k \in 1..Len(pipeline.middlewares) :
           pipeline.middlewares[k] \in {<<"next">>, <<"next", "next">>})
        => Events("final", 0) # {}

\* no middleware calls next() more than once
CallsNextOnce ==
    \A k \in 1..Len(pipeline.middlewares) :
        Cardinality({i \in 1..Len(pipeline.middlewares[k]) :
                        pipeline.middlewares[k][i] = "next"}) <= 1

\* C26 as stated: the middlewares are invoked in registration order, each
\* only after its predecessor has called next(), and the final handler is
\* invoked exactly once, after the last middleware has called next().
C26_OrderedPipeline ==
    /\ InRegistrationOrder
    /\ AfterPredecessor
    /\ FinalAfterLast
    /\ FinalReached

\* C26 amended: the same, for middlewares that each call next() at most once.
C26_OrderedPipelineOfSingleCallers ==
    CallsNextOnce => C26_OrderedPipeline

\* two middlewares have each called next() once and the run has returned
\* with the final handler invoked after both
C26_Witness ==
    /\ pipeline.phase = "returned"
    /\ pipeline.middlewares = << <<"next">>, <<"next">> >>
    /\ Cardinality(Events("final", 0)) = 1
    /\ \E i \in Events("invoke", 2), j \in Events("next", 2), k \in Events("final", 0) :
          i < j /\ j < k

\* C27: a request whose route handler throws before a response is committed
\* is answered 500 (the modelled throw is saveUser's 'Invalid username
\* format' inside handleSignup).
C27_ThrowIs500 ==
    (resp.op = "signup" /\ ~resp.limited /\ resp.error = "Invalid username format")
        => resp.status = 500

\* the requests for key passed to next() in the window of the entry H holds
\* for key
PassedInWindow(H, key) ==
    {i \in 1..Len(brute.log) :
        /\ brute.log[i].key = key
        /\ brute.log[i].passed
        /\ brute.log[i].at >= H[key].timestamp
        /\ brute.log[i].at - H[key].timestamp <= options.windowMs}

\* C28: for every (ip, pathname) key at most max requests are passed to
\* next() within the window of its entry; a request for a key that has had max
\* requests passed in its running window is answered 429 without reaching
\* next(); and a request leaves the entries of the other keys whose window is
\* running as they were.
C28_AtMostMaxPerKey ==
    /\ [](\A key \in DOMAIN brute.hits :
            Cardinality(PassedInWindow(brute.hits, key)) <= options.max)
    /\ [][Len(brute.log') = Len(brute.log) + 1
            => LET this == brute.log'[Len(brute.log')]
               IN  /\ (/\ this.key \in DOMAIN brute.hits
                       /\ now - brute.hits[this.key].timestamp <= options.windowMs
                       /\ Cardinality(PassedInWindow(brute.hits, this.key)) >= options.max)
                         => ~this.passed /\ this.status = 429
                   /\ \A key \in DOMAIN brute.hits \ {this.key} :
                         now - brute.hits[key].timestamp <= options.windowMs
                            => /\ key \in DOMAIN brute.hits'
                               /\ brute.hits'[key] = brute.hits[key]]_vars

\* a key has had max requests passed and a later one blocked in the same
\* window, after which a request for the same address and another path passed
C28_Witness ==
    \E i \in 1..Len(brute.log), j \in 1..Len(brute.log) :
        /\ i < j
        /\ ~brute.log[i].passed
        /\ brute.log[i].key \in DOMAIN brute.hits
        /\ Cardinality(PassedInWindow(brute.hits, brute.log[i].key)) = options.max
        /\ brute.log[j].key[1] = brute.log[i].key[1]
        /\ brute.log[j].key[2] # brute.log[i].key[2]
        /\ brute.log[j].passed
        /\ brute.log[j].at = brute.log[i].at


\* ------------------------------------------------------------------------
\* AuthServer.handleGetUser  (GET /auth/signin/:username, /auth/info/:username)
\* A JSON body is modelled by the set of its keys.
\* ------------------------------------------------------------------------
\* user.toObject(): the object saveUser writes to info.json, with the name
\* and creation date the handler reads from the user
toObject(user) == (DOMAIN user) \cup {"name", "createdAt"}

\* user.isPublic: a field info.json may lack, and then falsy
isPublic(user) == IF "isPublic" \in DOMAIN user THEN user.isPublic ELSE FALSE

\* const { passwordHash, verificationCode, resetCode, resetCodeAt, ...visible }
visible(object) ==
    object \ {"passwordHash", "verificationCode", "resetCode", "resetCodeAt"}

\* a handleGetUser that shows every requester what it shows the subject
handleGetUser_AlwaysVisible(s, token, username) ==
    LET me == authUser(s, token)
        user == getUser(s, username)
    IN  IF me = Null THEN [status |-> 401, body |-> {"error"}]
        ELSE IF user = Null THEN [status |-> 404, body |-> {"error"}]
        ELSE [status |-> 200, body |-> visible(toObject(s.info[user]))]

handleGetUser(s, token, username) ==
    LET me == authUser(s, token)
        user == getUser(s, username)
    IN  IF me = Null THEN [status |-> 401, body |-> {"error"}]
        ELSE IF user = Null THEN [status |-> 404, body |-> {"error"}]
        ELSE IF "admin" \in s.info[me].roles
             THEN [status |-> 200, body |-> visible(toObject(s.info[user]))]
        ELSE IF user = me
             THEN [status |-> 200, body |-> visible(toObject(s.info[user]))]
        ELSE IF isPublic(s.info[user])
             THEN [status |-> 200, body |-> visible(toObject(s.info[user]))]
        ELSE [status |-> 200, body |-> {"username", "email", "createdAt"}]

\* the usernames a get-user request names: the two accounts and a missing one
Usernames == Names \cup {"carol"}

\* the bearer tokens a request carries: none, root's pair, alice's pair
UserBearers == 0 .. 4

\* an account signed up and confirmed, as info.json holds it
Confirmed(email, password, public) ==
    [email |-> email, passwordHash |-> hashPassword(password),
     verified |-> TRUE, verificationCode |-> Null, resetCode |-> Null,
     roles |-> {"user"}, isPublic |-> public]

\* one get-user request: auth deletes an expired bearer, the handler answers
GetUser ==
    \E token \in UserBearers, username \in Usernames :
        LET s == authStore(Cur, token)
            r == handleGetUser(Cur, token, username)
        IN  /\ shown' = [asked |-> TRUE, token |-> token,
                         me |-> authUser(Cur, token), username |-> username,
                         status |-> r.status, body |-> r.body]
            /\ tokens' = s.tokens
            /\ tokensJson' = s.tokensJson
            /\ UNCHANGED <<now, ticks, config, info, registry, registryFile,
                           limiter, privateDocs, nextTok, budget, resp, issued,
                           replaced, deleted, signedOut, cleared, invalidated,
                           inflight, checked, calls, portCall, pipeline, brute, starting>>

\* time passes between two get-user requests
Later ==
    \E d \in TickSteps :
        /\ ticks > 0
        /\ now' = now + d
        /\ ticks' = ticks - 1
        /\ UNCHANGED <<config, info, tokensJson, tokens, registry, registryFile,
                       limiter, privateDocs, nextTok, budget, resp, issued,
                       replaced, deleted, signedOut, cleared, invalidated,
                       inflight, checked, calls, portCall, pipeline, brute, shown, starting>>

\* the server with the root admin and alice signed in; either may have been
\* marked public in info.json, and alice may have a reset code pending
InitUsers ==
    /\ now = 0
    /\ ticks = MaxTicks
    /\ config = FALSE
    /\ \E rootPublic \in BOOLEAN, alicePublic \in BOOLEAN, code \in Codes \cup {Null} :
          info = Put(Put(EmptyMap, "root",
                         [email |-> RootUser.email,
                          passwordHash |-> RootUser.passwordHash,
                          verified |-> TRUE, verificationCode |-> Null,
                          resetCode |-> Null, roles |-> RootUser.roles,
                          isPublic |-> rootPublic]),
                     "alice",
                     [Confirmed("alice@localhost", "pw", alicePublic)
                        EXCEPT !.resetCode = code])
    /\ tokensJson =
          Put(Put(EmptyMap, "root",
                  Put(Put(EmptyMap, 1, [time |-> ACCESS_TOKEN_LIFETIME,
                                        isRefresh |-> FALSE]),
                      2, [time |-> REFRESH_TOKEN_LIFETIME, isRefresh |-> TRUE])),
              "alice",
              Put(Put(EmptyMap, 3, [time |-> ACCESS_TOKEN_LIFETIME,
                                    isRefresh |-> FALSE]),
                  4, [time |-> REFRESH_TOKEN_LIFETIME, isRefresh |-> TRUE]))
    /\ tokens = [t \in 1 .. 4 |->
                   [time |-> IF t \in {1, 3} THEN ACCESS_TOKEN_LIFETIME
                                             ELSE REFRESH_TOKEN_LIFETIME,
                    username |-> IF t \in {1, 2} THEN "root" ELSE "alice",
                    isRefresh |-> t \in {2, 4}]]
    /\ registry = EmptyMap
    /\ registryFile = EmptyMap
    /\ limiter = EmptyMap
    /\ privateDocs = EmptyMap
    /\ nextTok = 5
    /\ budget = 0
    /\ resp = NoRequest
    /\ issued = EmptyMap
    /\ replaced = {}
    /\ deleted = {}
    /\ signedOut = {}
    /\ cleared = {}
    /\ invalidated = {}
    /\ inflight = [p \in Tasks |-> Idle]
    /\ starting = NoStart
    /\ shown = NoShown
    /\ checked = NoCheck
    /\ calls = << >>
    /\ portCall = NoPortCall
    /\ pipeline = NoRun
    /\ brute = NoHits

NextUsers == GetUser \/ Later

SpecUsers == InitUsers /\ [][NextUsers]_vars

\* the requester of the last request is an admin / the subject is public
RequesterIsAdmin == shown.me # Null /\ "admin" \in info[shown.me].roles
SubjectIsPublic == isPublic(info[shown.username])

\* C29: no get-user response contains passwordHash, verificationCode or
\* resetCode, and a requester who is neither an admin nor the subject
\* receives, for a subject that is not public, only username, email and
\* createdAt.
C29_NoSecretsAndMinimalForOthers ==
    shown.asked =>
        /\ shown.body \cap {"passwordHash", "verificationCode", "resetCode"} = {}
        /\ (/\ shown.status = 200
            /\ ~RequesterIsAdmin
            /\ shown.me # shown.username
            /\ ~SubjectIsPublic)
           => shown.body = {"username", "email", "createdAt"}

\* alice, no admin, has a reset code pending and has asked for root, who is
\* not public
C29_Witness ==
    /\ shown.asked /\ shown.status = 200
    /\ shown.me = "alice" /\ shown.username = "root"
    /\ ~SubjectIsPublic
    /\ shown.body = {"username", "email", "createdAt"}
    /\ info["alice"].resetCode # Null


\* the refresh tokens a refresh request presenting t has returned
ExchangedFor(t) == {n \in DOMAIN issued : issued[n].previous = t}

\* C30: a refresh token is exchanged at most once: once a refresh request
\* presenting t has returned a new pair, with or without replace, every later
\* refresh request presenting t is refused and mints nothing, so no two
\* registry nodes name the same previous token.
C30_RefreshExchangedOnce ==
    /\ [](\A a \in DOMAIN registry, b \in DOMAIN registry :
             (a # b /\ registry[a].previousToken # NoToken)
                => registry[a].previousToken # registry[b].previousToken)
    /\ [][(Served /\ resp'.op = "refresh" /\ ExchangedFor(resp'.token) # {})
             => /\ resp'.status # 200
                /\ resp'.accessToken = NoToken /\ resp'.refreshToken = NoToken
                /\ nextTok' = nextTok]_vars

\* ------------------------------------------------------------------------
\* Restart: what start() reads back from the data directory
\* ------------------------------------------------------------------------
\* AuthDB.load: every token of every users/../tokens.json, under its owner
dbLoad(files) ==
    [t \in UNION {DOMAIN files[u] : u \in DOMAIN files} |->
        LET username == CHOOSE u \in DOMAIN files : t \in DOMAIN files[u]
        IN  [time |-> files[username][t].time, username |-> username,
             isRefresh |-> files[username][t].isRefresh]]

\* TokenRotationRegistry.load: the entries of the saved registry document
load(file) == file

\* C31: if the process stops without stop() after a completed request and
\* is restarted, every unexpired refresh token loaded from disk into the
\* token store is in the reloaded rotation registry with the same subject.
C31_RestartKeepsRegistry ==
    resp # NoRequest =>
        \A t \in DOMAIN dbLoad(tokensJson) :
            (dbLoad(tokensJson)[t].isRefresh /\ tokenLive(dbLoad(tokensJson)[t]))
                => /\ t \in DOMAIN load(registryFile)
                   /\ load(registryFile)[t].username = dbLoad(tokensJson)[t].username

\* ------------------------------------------------------------------------
\* AuthServer.start(): the do { try { ... listen() } catch { ... } } loop
\* ------------------------------------------------------------------------
\* let max = 999
StartMax == 999

\* the failures srv.listen reports
ListenCodes == {"EADDRINUSE", "EACCES"}

\* a catch block that goes round the loop whatever the attempts left
catch_NoLimit(st, code, message) ==
    IF code # "EADDRINUSE"
    THEN [st EXCEPT !.pc = "thrown", !.code = code, !.error = message]
    ELSE [st EXCEPT !.pc = "try", !.code = code]

\* the catch block: out of attempts, or a failure that is not EADDRINUSE,
\* ends start(); EADDRINUSE goes round the loop
catch(st, code, message) ==
    IF st.max < 0
    THEN [st EXCEPT !.pc = "thrown", !.code = code, !.error = "Cannot start server"]
    ELSE IF code # "EADDRINUSE"
    THEN [st EXCEPT !.pc = "thrown", !.code = code, !.error = message]
    ELSE [st EXCEPT !.pc = "try", !.code = code]

StartOthersUnchanged ==
    UNCHANGED <<now, ticks, config, info, tokensJson, tokens, registry,
                registryFile, limiter, privateDocs, nextTok, budget, resp,
                issued, replaced, deleted, signedOut, cleared, invalidated,
                inflight, checked, calls, portCall, pipeline, brute, shown>>

\* the try block up to await this.listen(); a throw of getPort has no code
TryPort ==
    /\ starting.pc = "try"
    /\ LET r == getPort(starting.ports, starting.prev)
       IN  starting' =
             IF r.error # "" THEN catch(starting, "", r.error)
             ELSE [starting EXCEPT
                     !.port = r.port,
                     !.prev = r.port,
                     !.max = (IF starting.prev = r.port THEN 0 ELSE @) - 1,
                     !.pc = "listening",
                     !.attempts = @ + 1]
    /\ StartOthersUnchanged

\* listen() resolves
ListenOk ==
    /\ starting.pc = "listening"
    /\ starting' = [starting EXCEPT !.pc = "started"]
    /\ StartOthersUnchanged

\* listen() rejects with the error the socket reported
ListenFails ==
    \E code \in ListenCodes :
        /\ starting.pc = "listening"
        /\ starting' = catch(starting, code, code)
        /\ StartOthersUnchanged

\* the port configurations start() is run with: the default, one port, ranges
\* (one wider than the attempts allowed) and a list
StartPorts ==
    {<<0>>, <<8>>, <<8, 9>>, <<10, 8>>, <<1, 2000>>, <<8, 9, 10>>, <<9, 100, 10>>}

InitStart ==
    /\ now = 0
    /\ ticks = 0
    /\ config = FALSE
    /\ info = EmptyMap
    /\ tokensJson = EmptyMap
    /\ tokens = EmptyMap
    /\ registry = EmptyMap
    /\ registryFile = EmptyMap
    /\ limiter = EmptyMap
    /\ privateDocs = EmptyMap
    /\ nextTok = 1
    /\ budget = 0
    /\ resp = NoRequest
    /\ issued = EmptyMap
    /\ replaced = {}
    /\ deleted = {}
    /\ signedOut = {}
    /\ cleared = {}
    /\ invalidated = {}
    /\ inflight = [p \in Tasks |-> Idle]
    /\ shown = NoShown
    /\ checked = NoCheck
    /\ calls = << >>
    /\ portCall = NoPortCall
    /\ pipeline = NoRun
    /\ brute = NoHits
    /\ \E ports \in StartPorts :
          starting = [NoStart EXCEPT !.ports = ports, !.max = StartMax, !.pc = "try"]

NextStart == TryPort \/ ListenOk \/ ListenFails

\* an async function goes on once the promise it awaits has settled
SpecStart == InitStart /\ [][NextStart]_vars /\ WF_vars(NextStart)

StartEnded == starting.pc \in {"started", "thrown"}

\* a retry follows EADDRINUSE only, and asks getPort(prev) for the next port
RetriesOnInUse ==
    [][/\ (starting.pc = "listening" /\ starting'.pc = "try")
            => starting'.code = "EADDRINUSE"
       /\ (starting.pc = "try" /\ starting'.pc = "listening")
            => starting'.port = getPort(starting.ports, starting.prev).port]_vars

\* C32 as stated: start() always ends, retries on EADDRINUSE with
\* getPort(prev), rethrows every other listen failure at once, and makes a
\* bounded number of attempts.
C32_StartTerminatesRethrowing ==
    /\ <>StartEnded
    /\ [](starting.attempts <= StartMax + 1)
    /\ RetriesOnInUse
    /\ [][(starting.pc = "listening" /\ starting'.code \notin {"", "EADDRINUSE"})
             => (starting'.pc = "thrown" /\ starting'.error = starting'.code)]_vars

\* C32: start() always ends: it retries on EADDRINUSE with getPort(prev) while
\* attempts remain, any other listen failure ends it at once (rethrown while
\* attempts remain, 'Cannot start server' when none is left), and it makes at
\* most StartMax + 1 attempts.
C32_StartTerminates ==
    /\ <>StartEnded
    /\ [](starting.attempts <= StartMax + 1)
    /\ RetriesOnInUse
    /\ [][(starting.pc = "listening" /\ starting'.code \notin {"", "EADDRINUSE"})
             => /\ starting'.pc = "thrown"
                /\ starting'.error =
                      IF starting.max < 0 THEN "Cannot start server"
                      ELSE starting'.code]_vars

\* every attempt the loop allows has been made on a wide range, each failing
\* with EADDRINUSE, and start() has thrown
C32_Witness ==
    /\ starting.pc = "thrown"
    /\ starting.attempts = StartMax + 1
    /\ starting.code = "EADDRINUSE"
    /\ starting.error = "Cannot start server"

\* the entries a step adds to the log of the run
Logged == {i \in 1..Len(pipeline'.log) : i > Len(pipeline.log)}

\* C33: once response headers are committed no further middleware and no
\* final handler is started, and the next() that finds them committed ends
\* the run with runMiddlewares resolving, the error swallowed.
C33_NothingStartsAfterHeaders ==
    [][pipeline.headersSent
          => /\ \A i \in Logged : pipeline'.log[i].kind \notin {"invoke", "final"}
             /\ Logged # {} => (pipeline'.phase = "suppressed" /\ pipeline'.stack = << >>)
      ]_vars

\* the first middleware has committed a response and then called next(): the
\* second middleware and the final handler were never started and the run
\* has ended with the error swallowed
C33_Witness ==
    /\ pipeline.phase = "suppressed"
    /\ pipeline.headersSent
    /\ pipeline.middlewares = << <<"respond", "next">>, <<"next">> >>
    /\ Events("next", 1) # {}
    /\ Events("invoke", 2) = {}
    /\ Events("final", 0) = {}

\* a step is a validateToken call
Validated == resp = NoRequest /\ resp'.op = "validateToken"

\* the age of the entry the call looks up
AgeOf(token) == now - registry[token].createdAt

\* C34 as stated: validateToken(t, u) returns true exactly when t is
\* registered with subject u and is younger than the maximum age; a call
\* that finds the entry expired removes it, and a call with a wrong subject
\* on an unexpired entry leaves the registry as it was.
C34_ValidWhenYounger ==
    [][Validated =>
         /\ (resp'.status = 1) <=>
               /\ resp'.token \in DOMAIN registry
               /\ registry[resp'.token].username = resp'.username
               /\ AgeOf(resp'.token) < maxAge
         /\ (resp'.token \in DOMAIN registry /\ AgeOf(resp'.token) >= maxAge)
               => registry' = Remove(registry, {resp'.token})
         /\ (/\ resp'.token \in DOMAIN registry
             /\ AgeOf(resp'.token) < maxAge
             /\ registry[resp'.token].username # resp'.username)
               => registry' = registry]_vars

\* C34 amended: validateToken(t, u) returns true exactly when t is registered
\* with subject u and is not older than the maximum age (an entry aged
\* exactly maxAge is still valid); a call that finds the entry older removes
\* it, and any other call leaves the registry as it was.
C34_ValidWhenNotOlder ==
    [][Validated =>
         /\ (resp'.status = 1) <=>
               /\ resp'.token \in DOMAIN registry
               /\ registry[resp'.token].username = resp'.username
               /\ AgeOf(resp'.token) <= maxAge
         /\ IF resp'.token \in DOMAIN registry /\ AgeOf(resp'.token) > maxAge
            THEN registry' = Remove(registry, {resp'.token})
            ELSE registry' = registry]_vars

\* an entry aged exactly maxAge has been validated for its subject and kept
C34_Witness ==
    /\ resp.op = "validateToken"
    /\ resp.status = 1
    /\ resp.token \in DOMAIN registry
    /\ now - registry[resp.token].createdAt = maxAge
    /\ registry[resp.token].username = resp.username

\* the concurrent requests that have answered 200 to a replacing refresh of t
ReplacingRefreshesDone(t) ==
    {p \in Tasks : /\ inflight[p].pc = "done"
                   /\ inflight[p].op = "refresh"
                   /\ inflight[p].replace
                   /\ inflight[p].token = t}

\* C35: of the refresh requests that present the same refresh token with
\* replace=true and interleave at their suspension points, at most one
\* returns 200 with a new pair.
C35_OneReplacingRefreshWins ==
    \A t \in DOMAIN issued : Cardinality(ReplacingRefreshesDone(t)) <= 1

\* the user has a reset code issued by forgot-password and not yet consumed
Outstanding(username) ==
    username \in DOMAIN info /\ info[username].resetCode \in Codes

\* C36: a reset-password request changes the password and mints tokens only
\* if the user has an outstanding reset code and the request's code equals
\* it; for a user without an outstanding code every reset request is refused
\* and changes nothing, whatever it carries as code.
C36_ResetNeedsOutstandingCode ==
    [][(Served /\ resp'.op = "reset")
          => /\ (resp'.status = 200 \/ info' # info \/ nextTok' # nextTok)
                   => /\ Outstanding(resp'.username)
                      /\ resp'.arg = info[resp'.username].resetCode
             /\ ~Outstanding(resp'.username)
                   => /\ resp'.status # 200
                      /\ resp'.accessToken = NoToken /\ resp'.refreshToken = NoToken
                      /\ info' = info]_vars

\* C37: no handler mints a token pair for a user whose verified flag is
\* false when the pair is minted, and no token authenticates as an
\* unverified user.
C37_UnverifiedHoldsNoToken ==
    /\ [][(Served /\ resp'.accessToken # NoToken)
             => info'[issued'[resp'.accessToken].user].verified]_vars
    /\ [](\A t \in DOMAIN tokens :
             authUser(Cur, t) # Null => info[authUser(Cur, t)].verified)

\* ------------------------------------------------------------------------
\* Concurrent signups: handleSignup suspends in await getUser and in await
\* saveUser, and other requests run in between.
\* ------------------------------------------------------------------------
SignupOthersUnchanged ==
    UNCHANGED <<now, ticks, config, tokensJson, tokens, registry, registryFile,
                limiter, privateDocs, nextTok, budget, resp, issued, replaced,
                deleted, signedOut, cleared, invalidated, checked, calls,
                portCall, pipeline, brute, shown, starting>>

\* await this.db.getUser(username) returns: an existing user is answered 409,
\* otherwise the handler goes on to build the new user
\* the usernames the concurrent signups ask for: root exists
SignupNames == {"root", "alice", "bob"}

BeginSignup ==
    \E p \in Tasks, username \in SignupNames, password \in Passwords :
        /\ inflight[p].pc = "idle"
        /\ inflight' = [inflight EXCEPT ![p] =
              [Idle EXCEPT !.op = "signup", !.username = username,
                           !.password = password,
                           !.pc = IF getUser(Cur, username) # Null
                                  THEN "done" ELSE "absent",
                           !.status = IF getUser(Cur, username) # Null
                                      THEN 409 ELSE 0]]
        /\ UNCHANGED info
        /\ SignupOthersUnchanged

\* await this.db.saveUser(user) returns and the handler answers 200
CompleteSignup ==
    \E p \in Tasks :
        /\ inflight[p].pc = "absent"
        /\ info' = saveUser(Cur, inflight[p].username,
                            [email |-> "a@x",
                             passwordHash |-> hashPassword(inflight[p].password),
                             verified |-> FALSE, verificationCode |-> "111111",
                             resetCode |-> Null, roles |-> {"user"}]).info
        /\ inflight' = [inflight EXCEPT ![p].pc = "done", ![p].status = 200]
        /\ SignupOthersUnchanged

\* the started server, nobody signed up yet
InitSignups ==
    /\ Started
    /\ config = FALSE
    /\ budget = 0
    /\ ticks = 0

NextSignups == BeginSignup \/ CompleteSignup

SpecSignups == InitSignups /\ [][NextSignups]_vars

\* C38: of two signup requests for the same username, not existing before,
\* that interleave, at most one returns 200 and the stored record is that
\* request's; the other returns 409.
C38_OneSignupWins ==
    \A p \in Tasks, q \in Tasks :
        (/\ p # q
         /\ inflight[p].pc = "done" /\ inflight[q].pc = "done"
         /\ inflight[p].op = "signup" /\ inflight[q].op = "signup"
         /\ inflight[p].username = inflight[q].username
         /\ inflight[p].status = 200)
            => /\ inflight[q].status = 409
               /\ info[inflight[p].username].passwordHash =
                     hashPassword(inflight[p].password)

\* ------------------------------------------------------------------------
\* Signout when dropDocument(tokens.json) throws
\* ------------------------------------------------------------------------
\* clearTokens whose dropDocument throws: the catch returns false, before the
\* in-memory map was touched
clearTokensFailed(s, username) == s

\* handleSignout on that failure: the returned false is not looked at
handleSignoutDropFails(s, bearer) ==
    LET me == authUser(s, bearer)
        s0 == authStore(s, bearer)
    IN  IF me = Null THEN Reply(s0, 401, "Unauthorized")
        ELSE LET s1 == clearTokensFailed(s0, me)
                 s2 == [s1 EXCEPT !.registry = clearUserTokens(@, me)]
             IN  Reply(save(s2), 200, "")

SignoutDropFails ==
    \E ip \in IPs, bearer \in Bearers, username \in Names :
        Serve(ip, [NoRequest EXCEPT !.op = "signout", !.username = username,
                                    !.token = bearer],
              handleSignoutDropFails(mwStore(bearer), bearer), mwUser(bearer))

NextFaults == NextRotation \/ SignoutDropFails

\* the rotation requests on a data directory whose documents may fail to drop
SpecFaults == InitRotation /\ [][NextFaults]_vars

\* C39: signout answers 200 only when the caller's tokens were removed: after
\* a 200 signout the bearer token it carried no longer authenticates, also
\* when removing the token document failed.
C39_SignoutSuccessMeansRemoved ==
    (resp.op = "signout" /\ resp.status = 200)
        => /\ authUser(Cur, resp.token) = Null
           /\ \A t \in DOMAIN tokens : tokens[t].username # issued[resp.token].user

\* the tokens reachable from the tokens of S through the previous-token
\* links of the registry, S included
RECURSIVE ReachFrom(_)
ReachFrom(S) ==
    LET more == S \cup {registry[x].previousToken : x \in S \cap DOMAIN registry}
    IN  IF more = S THEN S ELSE ReachFrom(more)

\* C40: invalidateToken(t) ends after at most one iteration per registry
\* entry, whatever the previous-token links (cycles and self-links
\* included), removes t, and removes or changes no entry other than t and
\* the entries reachable from t through previous-token links.
C40_InvalidateEndsAndIsLocal ==
    [][(resp = NoRequest /\ resp'.op = "invalidateToken")
          => /\ invalidateSteps(registry, resp'.token) <= Cardinality(DOMAIN registry)
             /\ resp'.token \notin DOMAIN registry'
             /\ DOMAIN registry' \subseteq DOMAIN registry
             /\ (DOMAIN registry \ DOMAIN registry') \subseteq ReachFrom({resp'.token})
             /\ \A x \in DOMAIN registry' : registry'[x] = registry[x]]_vars

\* two tokens that named each other as previous token were invalidated
\* through one of them, and a third token is still registered
C40_Witness ==
    /\ resp.op = "invalidateToken"
    /\ resp.status = 1
    /\ \E a \in DOMAIN issued, b \in DOMAIN issued :
          /\ a # b
          /\ resp.token = a
          /\ issued[a].previous = b /\ issued[b].previous = a
          /\ a \notin DOMAIN registry /\ b \notin DOMAIN registry
    /\ registry # EmptyMap
====
